---- MODULE Spec2Model ----
(***************************************************************************)
(* A model of the NES emulator zenja/nes: the PPU (src/src/ppu), the bus   *)
(* (src/src/bus.rs), the cartridge and mapper 0, the joypad and the 6502   *)
(* interpreter (src/src/cpu/mod.rs).                                       *)
(*                                                                         *)
(* Every object of the program is a record and every method an operator    *)
(* that takes the record and returns the record after the call (with the   *)
(* returned value where there is one), so that a handler that calls        *)
(* several methods in sequence is one action.  Bytes are 0..255, u16 are   *)
(* 0..65535, and arithmetic wraps where the code wraps.  Arrays of the     *)
(* program that start zeroed are functions that hold only their non-zero   *)
(* entries (Get reads 0 elsewhere).                                        *)
(***************************************************************************)
EXTENDS Integers, Sequences, FiniteSets, TLC

VARIABLES
    ppu,      \* the PPU (bus.ppu)
    bus,      \* the bus without its PPU: RAM, cartridge, joypads, DMA, clock
    cpu,      \* the CPU registers, countdown and cycle counter
    phase,    \* where the run loop stands: "cpu" | "clock" | "panic" | "api"
    hist      \* history of the run, read by the properties only

vars == <<ppu, bus, cpu, phase, hist>>

----------------------------------------------------------------------------
(* Bytes and bits *)

Pow2(n) ==
    CASE n = 0 -> 1 [] n = 1 -> 2 [] n = 2 -> 4 [] n = 3 -> 8
      [] n = 4 -> 16 [] n = 5 -> 32 [] n = 6 -> 64 [] n = 7 -> 128
      [] n = 8 -> 256 [] n = 9 -> 512 [] n = 10 -> 1024 [] n = 11 -> 2048
      [] n = 12 -> 4096 [] n = 13 -> 8192 [] n = 14 -> 16384
      [] n = 15 -> 32768 [] n = 16 -> 65536

\* bit n of v, as 0 or 1
Bit(v, n) == (v \div Pow2(n)) % 2

\* v with bit n set (on = TRUE) or cleared
WithBit(v, n, on) ==
    IF on THEN (IF Bit(v, n) = 1 THEN v ELSE v + Pow2(n))
          ELSE (IF Bit(v, n) = 1 THEN v - Pow2(n) ELSE v)

\* bitwise operators on 16-bit values
BitAnd(a, b) ==
    LET f[i \in 0..16] ==
            IF i = 16 THEN 0
            ELSE Pow2(i) * (Bit(a, i) * Bit(b, i)) + f[i + 1]
    IN  f[0]

BitOr(a, b) == a + b - BitAnd(a, b)

BitXor(a, b) == a + b - 2 * BitAnd(a, b)

\* a zero-initialised array that holds its non-zero entries only
Get(f, i) == IF i \in DOMAIN f THEN f[i] ELSE 0

Put(f, i, v) ==
    IF v = 0
    THEN [x \in DOMAIN f \ {i} |-> f[x]]
    ELSE [x \in DOMAIN f \cup {i} |-> IF x = i THEN v ELSE f[x]]

Empty == [x \in {} |-> 0]

\* a `let`: Bind([x \in {e} |-> body]) is body with x standing for the value
\* of e, which is computed once however often body mentions x
Bind(f) == CHOOSE r \in UNION {{g[a] : a \in DOMAIN g} : g \in {f}} : TRUE

----------------------------------------------------------------------------
(* PPU registers: src/src/ppu/registers *)

\* StatusRegister: the flags are in status.rs, the accessors are not in the
\* sources; they are modelled from their names and the spec.
VERTICAL_BLANK_STARTED == 7
SPRITE_ZERO_HIT == 6

StatusRegister_read(bits) == bits

set_vblank_started(bits, on) == WithBit(bits, VERTICAL_BLANK_STARTED, on)

set_sprite_zero_hit(bits, on) == WithBit(bits, SPRITE_ZERO_HIT, on)

is_vblank_started(bits) == Bit(bits, VERTICAL_BLANK_STARTED) = 1

\* CtrlRegister
GENERATE_NMI == 7
VRAM_ADDR_INCREMENT == 2

is_generate_nmi(bits) == Bit(bits, GENERATE_NMI) = 1

\* get_vram_addr_inc that ignores VRAM_ADDR_INCREMENT
get_vram_addr_inc_always_1(bits) == 1 + 0 * Bit(bits, VRAM_ADDR_INCREMENT)

get_vram_addr_inc(bits) == IF Bit(bits, VRAM_ADDR_INCREMENT) = 1 THEN 32 ELSE 1

\* MaskRegister
GREYSCALE == 0
SHOW_BACKGROUND == 3
SHOW_SPRITES == 4

grayscale(bits) == Bit(bits, GREYSCALE) = 1

show_background(bits) == Bit(bits, SHOW_BACKGROUND) = 1

show_sprites(bits) == Bit(bits, SHOW_SPRITES) = 1

\* AddrRegister
AddrRegister_new == [hi |-> 0, lo |-> 0, write_to_hi |-> TRUE]

\* AddrRegister::write that forgets to flip write_to_hi
AddrRegister_write_no_flip(a, value) ==
    IF a.write_to_hi
    THEN [a EXCEPT !.hi = value]
    ELSE [a EXCEPT !.lo = value]

AddrRegister_write(a, value) ==
    IF a.write_to_hi
    THEN [a EXCEPT !.hi = value, !.write_to_hi = ~a.write_to_hi]
    ELSE [a EXCEPT !.lo = value, !.write_to_hi = ~a.write_to_hi]

AddrRegister_get(a) == a.hi * 256 + a.lo

AddrRegister_set(a, value) ==
    [a EXCEPT !.hi = value \div 256, !.lo = value % 256]

AddrRegister_inc(a, delta) ==
    AddrRegister_set(a, (AddrRegister_get(a) + delta) % 65536)

\* reset_latch is called by read_status_reg; its body is not in addr.rs
AddrRegister_reset_latch(a) == [a EXCEPT !.write_to_hi = TRUE]

\* ScrollRegister (scroll.rs is not in the sources): two writes, X then Y
ScrollRegister_new == [scroll_x |-> 0, scroll_y |-> 0, latch |-> FALSE]

ScrollRegister_write(s, value) ==
    IF ~s.latch
    THEN [s EXCEPT !.scroll_x = value, !.latch = TRUE]
    ELSE [s EXCEPT !.scroll_y = value, !.latch = FALSE]

ScrollRegister_reset_latch(s) == [s EXCEPT !.latch = FALSE]

----------------------------------------------------------------------------
(* PPU: src/src/ppu/mod.rs *)

CYCLES_PER_SCANLINE == 341
SCANLINES_PER_FRAME == 262
VBLANK_SCANLINE == 241
VRAM_SIZE == 2048

\* PPU::new(cart)
PPU_new(chr_rom, mirror) ==
    [ chr_rom       |-> chr_rom,
      vram          |-> Empty,
      palette_table |-> Empty,
      mirror        |-> mirror,
      addr_reg      |-> AddrRegister_new,
      ctrl_reg      |-> 0,
      status_reg    |-> 0,
      scroll_reg    |-> ScrollRegister_new,
      mask_reg      |-> 0,
      oam_data      |-> Empty,
      oam_addr      |-> 0,
      data_buf      |-> 0,
      nmi           |-> FALSE,
      scanlines     |-> 0,
      cycles        |-> 0 ]

\* is_sprite_zero_hit without the background bit of the mask
is_sprite_zero_hit_sprites_only(p) ==
    LET y == Get(p.oam_data, 0)
        x == Get(p.oam_data, 3)
    IN  /\ y = p.scanlines
        /\ x <= p.cycles
        /\ show_sprites(p.mask_reg)

is_sprite_zero_hit(p) ==
    LET y == Get(p.oam_data, 0)
        x == Get(p.oam_data, 3)
    IN  /\ y = p.scanlines
        /\ x <= p.cycles
        /\ show_background(p.mask_reg)
        /\ show_sprites(p.mask_reg)

\* the vblank branch of tick raising the NMI whatever the control register
PPU_tick_vblank_always_nmi(p) ==
    IF p.scanlines = VBLANK_SCANLINE
    THEN [p EXCEPT
            !.status_reg = set_sprite_zero_hit(set_vblank_started(@, TRUE), FALSE),
            !.nmi = TRUE]
    ELSE p

\* the body of `if self.scanlines == 241 { ... }`
PPU_tick_vblank(p) ==
    IF p.scanlines = VBLANK_SCANLINE
    THEN [p EXCEPT
            !.status_reg = set_sprite_zero_hit(set_vblank_started(@, TRUE), FALSE),
            !.nmi = IF is_generate_nmi(p.ctrl_reg) THEN TRUE ELSE @]
    ELSE p

\* the body of `if self.scanlines == 262 { ... }`
PPU_tick_frame_end(p) ==
    IF p.scanlines = SCANLINES_PER_FRAME
    THEN [p EXCEPT
            !.scanlines = 0,
            !.status_reg = set_sprite_zero_hit(set_vblank_started(@, FALSE), FALSE),
            !.nmi = FALSE]
    ELSE p

\* the end of a scanline without `self.cycles = 0`
PPU_tick_scanline_end_keeps_cycles(p) ==
    LET p1 == IF is_sprite_zero_hit(p)
              THEN [p EXCEPT !.status_reg = set_sprite_zero_hit(@, TRUE)]
              ELSE p
        p2 == [p1 EXCEPT !.scanlines = @ + 1]
    IN  PPU_tick_frame_end(PPU_tick_vblank(p2))

\* the body of `if self.cycles == 341 { ... }`
PPU_tick_scanline_end(p) ==
    LET p1 == IF is_sprite_zero_hit(p)
              THEN [p EXCEPT !.status_reg = set_sprite_zero_hit(@, TRUE)]
              ELSE p
        p2 == [p1 EXCEPT !.cycles = 0, !.scanlines = @ + 1]
    IN  PPU_tick_frame_end(PPU_tick_vblank(p2))

PPU_tick(p) ==
    LET p1 == [p EXCEPT !.cycles = @ + 1]
    IN  IF p1.cycles = CYCLES_PER_SCANLINE THEN PPU_tick_scanline_end(p1) ELSE p1

PPU_write_ctrl_reg(p, value) == [p EXCEPT !.ctrl_reg = value]

PPU_write_mask_reg(p, value) == [p EXCEPT !.mask_reg = value]

PPU_write_addr_reg(p, value) ==
    [p EXCEPT !.addr_reg = AddrRegister_write(@, value)]

PPU_write_scroll_reg(p, value) ==
    [p EXCEPT !.scroll_reg = ScrollRegister_write(@, value)]

\* read_status_reg clearing the whole register instead of the vblank flag
PPU_read_status_reg_clears_all(p) ==
    [ ret |-> StatusRegister_read(p.status_reg),
      ppu |-> [p EXCEPT
                 !.status_reg = 0,
                 !.addr_reg = AddrRegister_reset_latch(@),
                 !.scroll_reg = ScrollRegister_reset_latch(@)] ]

\* returns the value read and the PPU after the read
PPU_read_status_reg(p) ==
    [ ret |-> StatusRegister_read(p.status_reg),
      ppu |-> [p EXCEPT
                 !.status_reg = set_vblank_started(@, FALSE),
                 !.addr_reg = AddrRegister_reset_latch(@),
                 !.scroll_reg = ScrollRegister_reset_latch(@)] ]

PPU_has_nmi(p) == p.nmi

PPU_reset_nmi(p) == [p EXCEPT !.nmi = FALSE]

\* The methods below act on the machine m = [cpu, bus, ppu, panic, overflow]
\* and return the machine after the call, or [ret, m] when they return a value.

\* a panic ends the process: the flag stays up and the run loop stops
Panic(m) == [m EXCEPT !.panic = TRUE]

\* an unchecked `+= 1` or `-= 1` that overflows when `overflows` holds: the
\* value wraps, and the flag records that a build with overflow checks
\* panics here
Checked(m, overflows) == IF overflows THEN [m EXCEPT !.overflow = TRUE] ELSE m

\* get_mirrored_vram_addr with the two arrangements exchanged
get_mirrored_vram_addr_swapped(mirror, addr) ==
    LET logical_vram_idx == addr % 4096
        nametable_idx == logical_vram_idx \div 1024
        vram_idx_a == logical_vram_idx % 1024
        vram_idx_b == vram_idx_a + 1024
    IN  CASE mirror = "Vertical" /\ nametable_idx \in {0, 1} -> vram_idx_a
          [] mirror = "Horizontal" /\ nametable_idx \in {0, 2} -> vram_idx_a
          [] mirror = "Vertical" /\ nametable_idx \in {2, 3} -> vram_idx_b
          [] mirror = "Horizontal" /\ nametable_idx \in {1, 3} -> vram_idx_b
          [] OTHER -> logical_vram_idx

\* Return index in vram array
get_mirrored_vram_addr(mirror, addr) ==
    LET logical_vram_idx == addr % 4096
        nametable_idx == logical_vram_idx \div 1024
        vram_idx_a == logical_vram_idx % 1024
        vram_idx_b == vram_idx_a + 1024
    IN  CASE mirror = "Horizontal" /\ nametable_idx \in {0, 1} -> vram_idx_a
          [] mirror = "Vertical" /\ nametable_idx \in {0, 2} -> vram_idx_a
          [] mirror = "Horizontal" /\ nametable_idx \in {2, 3} -> vram_idx_b
          [] mirror = "Vertical" /\ nametable_idx \in {1, 3} -> vram_idx_b
          [] OTHER -> logical_vram_idx

\* the palette index without the four mirrors
palette_mirrored_none(addr) == addr % 32

\* $3F10/$3F14/$3F18/$3F1C are mirrors of $3F00/$3F04/$3F08/$3F0C
palette_mirrored(addr) ==
    LET mirrored == addr % 32
    IN  CASE mirrored = 16 -> 0
          [] mirrored = 20 -> 4
          [] mirrored = 24 -> 8
          [] mirrored = 28 -> 12
          [] OTHER -> mirrored

\* read_data_reg returning the byte at the address instead of the buffer
PPU_read_data_reg_unbuffered(m) ==
    LET p == m.ppu
        addr == AddrRegister_get(p.addr_reg) % 16384
        p1 == [p EXCEPT !.addr_reg = AddrRegister_inc(@, get_vram_addr_inc(p.ctrl_reg))]
    IN  CASE addr <= 8191 ->
              IF addr < p.chr_rom.len
              THEN [ret |-> Get(p.chr_rom.data, addr),
                    m |-> [m EXCEPT !.ppu = [p1 EXCEPT !.data_buf = Get(p.chr_rom.data, addr)]]]
              ELSE [ret |-> 0, m |-> Panic(m)]
          [] addr >= 8192 /\ addr <= 16127 ->
              LET idx == get_mirrored_vram_addr(p.mirror, addr % 4096)
              IN  IF idx < VRAM_SIZE
                  THEN [ret |-> Get(p.vram, idx),
                        m |-> [m EXCEPT !.ppu = [p1 EXCEPT !.data_buf = Get(p.vram, idx)]]]
                  ELSE [ret |-> 0, m |-> Panic(m)]
          [] OTHER ->
              LET v == Get(p.palette_table, palette_mirrored(addr))
              IN  [ret |-> IF grayscale(p.mask_reg) THEN BitAnd(v, 48) ELSE BitAnd(v, 63),
                   m |-> [m EXCEPT !.ppu = p1]]

PPU_read_data_reg(m) ==
    LET p == m.ppu
        addr == AddrRegister_get(p.addr_reg) % 16384
        buf == p.data_buf
        p1 == [p EXCEPT !.addr_reg = AddrRegister_inc(@, get_vram_addr_inc(p.ctrl_reg))]
    IN  CASE addr <= 8191 ->
              IF addr < p.chr_rom.len
              THEN [ret |-> buf,
                    m |-> [m EXCEPT !.ppu = [p1 EXCEPT !.data_buf = Get(p.chr_rom.data, addr)]]]
              ELSE [ret |-> 0, m |-> Panic(m)]
          [] addr >= 8192 /\ addr <= 16127 ->
              LET idx == get_mirrored_vram_addr(p.mirror, addr % 4096)
              IN  IF idx < VRAM_SIZE
                  THEN [ret |-> buf,
                        m |-> [m EXCEPT !.ppu = [p1 EXCEPT !.data_buf = Get(p.vram, idx)]]]
                  ELSE [ret |-> 0, m |-> Panic(m)]
          [] OTHER ->
              LET v == Get(p.palette_table, palette_mirrored(addr))
              IN  [ret |-> IF grayscale(p.mask_reg) THEN BitAnd(v, 48) ELSE BitAnd(v, 63),
                   m |-> [m EXCEPT !.ppu = p1]]

PPU_write_data_reg(m, value) ==
    LET p == m.ppu
        addr == AddrRegister_get(p.addr_reg)
        p1 == [p EXCEPT !.addr_reg = AddrRegister_inc(@, get_vram_addr_inc(p.ctrl_reg))]
    IN  CASE addr <= 8191 -> Panic(m)
          [] addr >= 8192 /\ addr <= 16127 ->
              LET idx == get_mirrored_vram_addr(p.mirror, addr % 4096)
              IN  IF idx < VRAM_SIZE
                  THEN [m EXCEPT !.ppu = [p1 EXCEPT !.vram = Put(@, idx, value)]]
                  ELSE Panic(m)
          [] addr >= 16128 /\ addr <= 16383 ->
              [m EXCEPT !.ppu = [p1 EXCEPT
                  !.palette_table = Put(@, palette_mirrored(addr), value)]]
          [] OTHER -> Panic(m)

PPU_write_oam_addr(p, value) == [p EXCEPT !.oam_addr = value]

PPU_read_oam_data(p) == Get(p.oam_data, p.oam_addr)

PPU_write_oam_data(m, value) ==
    LET p == m.ppu
        m1 == [m EXCEPT !.ppu = [p EXCEPT
                  !.oam_data = Put(@, p.oam_addr, value),
                  !.oam_addr = (p.oam_addr + 1) % 256]]
    IN  Checked(m1, p.oam_addr = 255)

PPU_cpu_read(m, cpu_addr) ==
    LET reg == cpu_addr % 8
    IN  CASE reg = 2 ->
              LET r == PPU_read_status_reg(m.ppu)
              IN  [ret |-> r.ret, m |-> [m EXCEPT !.ppu = r.ppu]]
          [] reg = 4 -> [ret |-> PPU_read_oam_data(m.ppu), m |-> m]
          [] reg = 7 -> PPU_read_data_reg(m)
          [] OTHER -> [ret |-> 0, m |-> m]

PPU_cpu_write(m, cpu_addr, value) ==
    LET reg == cpu_addr % 8
    IN  CASE reg = 0 -> [m EXCEPT !.ppu = PPU_write_ctrl_reg(@, value)]
          [] reg = 1 -> [m EXCEPT !.ppu = PPU_write_mask_reg(@, value)]
          [] reg = 2 -> Panic(m)
          [] reg = 3 -> [m EXCEPT !.ppu = PPU_write_oam_addr(@, value)]
          [] reg = 4 -> PPU_write_oam_data(m, value)
          [] reg = 5 -> [m EXCEPT !.ppu = PPU_write_scroll_reg(@, value)]
          [] reg = 6 -> [m EXCEPT !.ppu = PPU_write_addr_reg(@, value)]
          [] OTHER -> PPU_write_data_reg(m, value)

----------------------------------------------------------------------------
(* Joypad: src/src/joypad.rs *)

\* JoypadStatus: the bit of each button
BUTTON_A == 0
BUTTON_B == 1
SELECT == 2
START == 3
UP == 4
DOWN == 5
LEFT == 6
RIGHT == 7

Joypad_new == [strobe |-> FALSE, next_btn_idx |-> 0, status |-> 0]

\* Joypad::write that leaves the read index where it is
Joypad_write_keeps_index(j, value) == [j EXCEPT !.strobe = value % 2 = 1]

Joypad_write(j, value) ==
    LET strobe == value % 2 = 1
    IN  [j EXCEPT !.strobe = strobe,
                  !.next_btn_idx = IF strobe THEN 0 ELSE @]

\* Joypad::read that starts over at button A after the eighth button
Joypad_read_wraps(j) ==
    [ret |-> Bit(j.status, j.next_btn_idx % 8),
     joypad |-> IF ~j.strobe
                THEN [j EXCEPT !.next_btn_idx = (@ + 1) % 8]
                ELSE j]

\* Joypad::read that moves to the next button whatever the strobe is
Joypad_read_always_advances(j) ==
    IF j.next_btn_idx > 7
    THEN [ret |-> 1, joypad |-> j]
    ELSE [ret |-> Bit(j.status, j.next_btn_idx),
          joypad |-> [j EXCEPT !.next_btn_idx = @ + 1]]

\* returns the bit read and the joypad after the read
Joypad_read(j) ==
    IF j.next_btn_idx > 7
    THEN [ret |-> 1, joypad |-> j]
    ELSE [ret |-> Bit(j.status, j.next_btn_idx),
          joypad |-> IF ~j.strobe /\ j.next_btn_idx <= 7
                     THEN [j EXCEPT !.next_btn_idx = @ + 1]
                     ELSE j]

Joypad_set(j, btn) == [j EXCEPT !.status = WithBit(@, btn, TRUE)]

Joypad_unset(j, btn) == [j EXCEPT !.status = WithBit(@, btn, FALSE)]

----------------------------------------------------------------------------
(* Cartridge and mapper 0: src/src/cartridge.rs, src/src/mapper/mapper_0.rs *)

\* [some, addr]: the PRG offset of a CPU address, when the cartridge maps it
Mapper0_cpu_read_mapping(cart, addr) ==
    IF addr >= 32768 /\ addr <= 65535
    THEN [some |-> TRUE,
          addr |-> IF cart.num_prg_banks > 1 THEN addr % 32768 ELSE addr % 16384]
    ELSE [some |-> FALSE, addr |-> 0]

PRG_ROM_PAGE_SIZE == 16384
CHR_ROM_PAGE_SIZE == 8192

\* raw[from..from + size] as a vector of its own
Slice(raw, from, size) ==
    [data |-> [i \in {a - from : a \in {b \in DOMAIN raw.data :
                                            b >= from /\ b < from + size}} |->
                  raw.data[i + from]],
     len |-> size]

\* mapper::new: mapper 0 is the only one
Mapper_new(mapper_id) == mapper_id = 0

\* Cartridge::new without the test of the low four bits of control byte 2
Cartridge_new_any_ines(raw) ==
    LET byte(i) == Get(raw.data, i)
        mapper_id == (byte(7) \div 16) * 16 + (byte(6) \div 16)
        has_trainer == Bit(byte(6), 2) = 1
        prg_rom_size == byte(4) * PRG_ROM_PAGE_SIZE
        chr_rom_size == byte(5) * CHR_ROM_PAGE_SIZE
        prg_rom_start == 16 + (IF has_trainer THEN 512 ELSE 0)
        chr_rom_start == prg_rom_start + prg_rom_size
        NoCart == [none |-> TRUE]
    IN  CASE raw.len < 4 -> [kind |-> "panic", err |-> "", cart |-> NoCart]
          [] raw.len >= 4 /\ <<byte(0), byte(1), byte(2), byte(3)>> # <<78, 69, 83, 26>> ->
              [kind |-> "err", err |-> "NES identifier not found", cart |-> NoCart]
          [] OTHER ->
              CASE raw.len < 8 -> [kind |-> "panic", err |-> "", cart |-> NoCart]
                [] raw.len >= 8 /\ ~Mapper_new(mapper_id) ->
                    [kind |-> "err", err |-> "Mapper not supported", cart |-> NoCart]
                [] OTHER ->
                    IF chr_rom_start + chr_rom_size > raw.len
                    THEN [kind |-> "panic", err |-> "", cart |-> NoCart]
                    ELSE [kind |-> "ok", err |-> "",
                          cart |-> [ mirror |-> CASE Bit(byte(6), 3) = 1 -> "FourScreen"
                                                  [] Bit(byte(6), 3) = 0 /\ Bit(byte(6), 0) = 1 ->
                                                      "Vertical"
                                                  [] OTHER -> "Horizontal",
                                     num_prg_banks |-> byte(4),
                                     num_chr_banks |-> byte(5),
                                     prg_rom |-> Slice(raw, prg_rom_start, prg_rom_size),
                                     chr_rom |-> Slice(raw, chr_rom_start, chr_rom_size) ]]

\* Cartridge::new: [kind, err, cart], where kind is "ok" for Ok(cart), "err"
\* for Err(err), and "panic" for an index or a slice past the end of raw
Cartridge_new(raw) ==
    LET byte(i) == Get(raw.data, i)
        mapper_id == (byte(7) \div 16) * 16 + (byte(6) \div 16)
        has_trainer == Bit(byte(6), 2) = 1
        prg_rom_size == byte(4) * PRG_ROM_PAGE_SIZE
        chr_rom_size == byte(5) * CHR_ROM_PAGE_SIZE
        prg_rom_start == 16 + (IF has_trainer THEN 512 ELSE 0)
        chr_rom_start == prg_rom_start + prg_rom_size
        NoCart == [none |-> TRUE]
    IN  CASE raw.len < 4 -> [kind |-> "panic", err |-> "", cart |-> NoCart]
          [] raw.len >= 4 /\ <<byte(0), byte(1), byte(2), byte(3)>> # <<78, 69, 83, 26>> ->
              [kind |-> "err", err |-> "NES identifier not found", cart |-> NoCart]
          [] OTHER ->
              CASE raw.len < 8 -> [kind |-> "panic", err |-> "", cart |-> NoCart]
                [] raw.len >= 8 /\ ~Mapper_new(mapper_id) ->
                    [kind |-> "err", err |-> "Mapper not supported", cart |-> NoCart]
                [] raw.len >= 8 /\ Mapper_new(mapper_id) /\ byte(7) % 16 # 0 ->
                    [kind |-> "err",
                     err |-> "Bit 0 to 3 of control byte 2 should be zero for iNes 1.0 format",
                     cart |-> NoCart]
                [] OTHER ->
                    IF chr_rom_start + chr_rom_size > raw.len
                    THEN [kind |-> "panic", err |-> "", cart |-> NoCart]
                    ELSE [kind |-> "ok", err |-> "",
                          cart |-> [ mirror |-> CASE Bit(byte(6), 3) = 1 -> "FourScreen"
                                                  [] Bit(byte(6), 3) = 0 /\ Bit(byte(6), 0) = 1 ->
                                                      "Vertical"
                                                  [] OTHER -> "Horizontal",
                                     num_prg_banks |-> byte(4),
                                     num_chr_banks |-> byte(5),
                                     prg_rom |-> Slice(raw, prg_rom_start, prg_rom_size),
                                     chr_rom |-> Slice(raw, chr_rom_start, chr_rom_size) ]]

\* [some, ret, panic]: panic is the index past the end of prg_rom
Cartridge_cpu_read(cart, addr) ==
    LET a == Mapper0_cpu_read_mapping(cart, addr)
    IN  [some |-> a.some,
         ret |-> Get(cart.prg_rom.data, a.addr),
         panic |-> a.some /\ a.addr >= cart.prg_rom.len]

\* [ok, cart, panic]
Cartridge_cpu_write(cart, addr, value) ==
    LET a == Mapper0_cpu_read_mapping(cart, addr)
    IN  IF a.some
        THEN [ok |-> TRUE,
              cart |-> [cart EXCEPT !.prg_rom.data = Put(@, a.addr, value)],
              panic |-> a.addr >= cart.prg_rom.len]
        ELSE [ok |-> FALSE, cart |-> cart, panic |-> FALSE]

----------------------------------------------------------------------------
(* Bus: src/src/bus.rs *)

\* total_system_cycles is a u32, kept as its two 16-bit halves:
\* the value is hi * 65536 + lo
U32_zero == [hi |-> 0, lo |-> 0]

U32_wrapping_add_1(c) ==
    IF c.lo < 65535 THEN [c EXCEPT !.lo = @ + 1]
    ELSE [hi |-> (c.hi + 1) % 65536, lo |-> 0]

\* (hi * 65536 + lo) % 3, as 65536 % 3 = 1
U32_mod_3(c) == (c.hi + c.lo) % 3

U32_mod_2(c) == c.lo % 2

Bus_new(cart) ==
    [ cpu_ram             |-> Empty,
      cart                |-> cart,
      joypads             |-> <<Joypad_new, Joypad_new>>,
      total_system_cycles |-> U32_zero,
      dma_page            |-> 0,
      dma_addr            |-> 0,
      dma_data            |-> 0,
      dma_dummy           |-> TRUE,
      dma_transfer        |-> FALSE ]

Bus_cpu_read(m, addr) ==
    Bind([v \in {Cartridge_cpu_read(m.bus.cart, addr)} |->
        IF v.some
        THEN [ret |-> v.ret, m |-> IF v.panic THEN Panic(m) ELSE m]
        ELSE CASE addr <= 8191 -> [ret |-> Get(m.bus.cpu_ram, addr % 2048), m |-> m]
               [] addr >= 8192 /\ addr <= 16383 -> PPU_cpu_read(m, addr)
               [] addr = 16406 ->
                   LET r == Joypad_read(m.bus.joypads[1])
                   IN  [ret |-> r.ret, m |-> [m EXCEPT !.bus.joypads[1] = r.joypad]]
               [] addr = 16407 ->
                   LET r == Joypad_read(m.bus.joypads[2])
                   IN  [ret |-> r.ret, m |-> [m EXCEPT !.bus.joypads[2] = r.joypad]]
               [] OTHER -> [ret |-> 0, m |-> m] ])

\* Bus::cpu_write indexing the RAM with the address as it comes
Bus_cpu_write_unmirrored(m, addr, value) ==
    Bind([w \in {Cartridge_cpu_write(m.bus.cart, addr, value)} |->
        IF w.ok
        THEN IF w.panic THEN Panic(m) ELSE [m EXCEPT !.bus.cart = w.cart]
        ELSE CASE addr <= 8191 -> [m EXCEPT !.bus.cpu_ram = Put(@, addr, value)]
               [] addr >= 8192 /\ addr <= 16383 -> PPU_cpu_write(m, addr, value)
               [] addr = 16404 ->
                   [m EXCEPT !.bus.dma_page = value,
                             !.bus.dma_addr = 0,
                             !.bus.dma_transfer = TRUE]
               [] addr = 16406 -> [m EXCEPT !.bus.joypads[1] = Joypad_write(@, value)]
               [] addr = 16407 -> [m EXCEPT !.bus.joypads[2] = Joypad_write(@, value)]
               [] OTHER -> m ])

Bus_cpu_write(m, addr, value) ==
    Bind([w \in {Cartridge_cpu_write(m.bus.cart, addr, value)} |->
        IF w.ok
        THEN IF w.panic THEN Panic(m) ELSE [m EXCEPT !.bus.cart = w.cart]
        ELSE CASE addr <= 8191 -> [m EXCEPT !.bus.cpu_ram = Put(@, addr % 2048, value)]
               [] addr >= 8192 /\ addr <= 16383 -> PPU_cpu_write(m, addr, value)
               [] addr = 16404 ->
                   [m EXCEPT !.bus.dma_page = value,
                             !.bus.dma_addr = 0,
                             !.bus.dma_transfer = TRUE]
               [] addr = 16406 -> [m EXCEPT !.bus.joypads[1] = Joypad_write(@, value)]
               [] addr = 16407 -> [m EXCEPT !.bus.joypads[2] = Joypad_write(@, value)]
               [] OTHER -> m ])

\* the DMA branch reading from page 0 whatever dma_page is
Bus_dma_step_ignores_page(m) ==
    IF U32_mod_2(m.bus.total_system_cycles) = 0
    THEN Bind([r \in {Bus_cpu_read(m, m.bus.dma_addr)} |->
             [r.m EXCEPT !.bus.dma_data = r.ret] ])
    ELSE LET addr == (m.bus.dma_addr + 1) % 256
             m1 == [m EXCEPT !.ppu.oam_data = Put(@, m.bus.dma_addr, m.bus.dma_data),
                             !.bus.dma_addr = addr]
         IN  IF addr = 0
             THEN [m1 EXCEPT !.bus.dma_transfer = FALSE, !.bus.dma_dummy = TRUE]
             ELSE m1

\* the DMA branch of system_tick, once the dummy cycles are over
Bus_dma_step(m) ==
    IF U32_mod_2(m.bus.total_system_cycles) = 0
    THEN \* On even clock cycles, read from CPU bus
         Bind([r \in {Bus_cpu_read(m, m.bus.dma_page * 256 + m.bus.dma_addr)} |->
             [r.m EXCEPT !.bus.dma_data = r.ret] ])
    ELSE \* On odd clock cycles, write to PPU OAM
         LET addr == (m.bus.dma_addr + 1) % 256
             m1 == [m EXCEPT !.ppu.oam_data = Put(@, m.bus.dma_addr, m.bus.dma_data),
                             !.bus.dma_addr = addr]
         IN  IF addr = 0
             THEN [m1 EXCEPT !.bus.dma_transfer = FALSE, !.bus.dma_dummy = TRUE]
             ELSE m1

\* system_tick letting the CPU tick during the dummy cycles of a DMA
Bus_system_tick_ticks_in_dummy(m) ==
    LET count(x) ==
            [x EXCEPT !.bus.total_system_cycles = U32_wrapping_add_1(@)]
    IN  IF U32_mod_3(m.bus.total_system_cycles) = 0
        THEN IF m.bus.dma_transfer
             THEN IF m.bus.dma_dummy
                  THEN IF U32_mod_2(m.bus.total_system_cycles) = 1
                       THEN [ret |-> TRUE, m |-> count([m EXCEPT !.bus.dma_dummy = FALSE])]
                       ELSE [ret |-> TRUE, m |-> count(m)]
                  ELSE [ret |-> FALSE, m |-> count(Bus_dma_step(m))]
             ELSE [ret |-> TRUE, m |-> count(m)]
        ELSE [ret |-> FALSE, m |-> count(m)]

\* Execute a system tick and return true if CPU should tick: [ret, m]
Bus_system_tick(m) ==
    LET count(x) ==
            [x EXCEPT !.bus.total_system_cycles = U32_wrapping_add_1(@)]
    IN  IF U32_mod_3(m.bus.total_system_cycles) = 0
        THEN IF m.bus.dma_transfer
             THEN IF m.bus.dma_dummy
                  THEN IF U32_mod_2(m.bus.total_system_cycles) = 1
                       THEN [ret |-> FALSE, m |-> count([m EXCEPT !.bus.dma_dummy = FALSE])]
                       ELSE [ret |-> FALSE, m |-> count(m)]
                  ELSE [ret |-> FALSE, m |-> count(Bus_dma_step(m))]
             ELSE [ret |-> TRUE, m |-> count(m)]
        ELSE [ret |-> FALSE, m |-> count(m)]

Bus_has_nmi(m) == PPU_has_nmi(m.ppu)

Bus_reset_nmi(m) == [m EXCEPT !.ppu = PPU_reset_nmi(@)]

----------------------------------------------------------------------------
(* The opcode table: src/src/cpu/spec.rs, and AddrMode: src/src/cpu/addr.rs *)

Entry(op, mode, cyc, inc, official) ==
    [ opcode                    |-> op,
      addr_mode                 |-> mode,
      base_cycles               |-> cyc,
      inc_cycle_on_page_crossed |-> inc,
      is_official               |-> official ]

\* opcode byte -> Spec, the map opcode_to_spec() builds from SPEC_TABLE
SPEC_TABLE ==
    105 :> Entry("ADC", "Immediate", 2, FALSE, TRUE) @@
    101 :> Entry("ADC", "ZeroPage", 3, FALSE, TRUE) @@
    117 :> Entry("ADC", "ZeroPageX", 4, FALSE, TRUE) @@
    109 :> Entry("ADC", "Absolute", 4, FALSE, TRUE) @@
    125 :> Entry("ADC", "AbsoluteX", 4, TRUE, TRUE) @@
    121 :> Entry("ADC", "AbsoluteY", 4, TRUE, TRUE) @@
    97 :> Entry("ADC", "IndexedIndirect", 6, FALSE, TRUE) @@
    113 :> Entry("ADC", "IndirectIndexed", 5, TRUE, TRUE) @@
    41 :> Entry("AND", "Immediate", 2, FALSE, TRUE) @@
    37 :> Entry("AND", "ZeroPage", 3, FALSE, TRUE) @@
    53 :> Entry("AND", "ZeroPageX", 4, FALSE, TRUE) @@
    45 :> Entry("AND", "Absolute", 4, FALSE, TRUE) @@
    61 :> Entry("AND", "AbsoluteX", 4, TRUE, TRUE) @@
    57 :> Entry("AND", "AbsoluteY", 4, TRUE, TRUE) @@
    33 :> Entry("AND", "IndexedIndirect", 6, FALSE, TRUE) @@
    49 :> Entry("AND", "IndirectIndexed", 5, TRUE, TRUE) @@
    10 :> Entry("ASL", "Implicit", 2, FALSE, TRUE) @@
    6 :> Entry("ASL", "ZeroPage", 5, FALSE, TRUE) @@
    22 :> Entry("ASL", "ZeroPageX", 6, FALSE, TRUE) @@
    14 :> Entry("ASL", "Absolute", 6, FALSE, TRUE) @@
    30 :> Entry("ASL", "AbsoluteX", 7, FALSE, TRUE) @@
    144 :> Entry("BCC", "Relative", 2, TRUE, TRUE) @@
    176 :> Entry("BCS", "Relative", 2, TRUE, TRUE) @@
    240 :> Entry("BEQ", "Relative", 2, TRUE, TRUE) @@
    36 :> Entry("BIT", "ZeroPage", 3, FALSE, TRUE) @@
    44 :> Entry("BIT", "Absolute", 4, FALSE, TRUE) @@
    48 :> Entry("BMI", "Relative", 2, TRUE, TRUE) @@
    208 :> Entry("BNE", "Relative", 2, TRUE, TRUE) @@
    16 :> Entry("BPL", "Relative", 2, TRUE, TRUE) @@
    0 :> Entry("BRK", "Implicit", 7, FALSE, TRUE) @@
    80 :> Entry("BVC", "Relative", 2, TRUE, TRUE) @@
    112 :> Entry("BVS", "Relative", 2, TRUE, TRUE) @@
    24 :> Entry("CLC", "Implicit", 2, FALSE, TRUE) @@
    216 :> Entry("CLD", "Implicit", 2, FALSE, TRUE) @@
    88 :> Entry("CLI", "Implicit", 2, FALSE, TRUE) @@
    184 :> Entry("CLV", "Implicit", 2, FALSE, TRUE) @@
    201 :> Entry("CMP", "Immediate", 2, FALSE, TRUE) @@
    197 :> Entry("CMP", "ZeroPage", 3, FALSE, TRUE) @@
    213 :> Entry("CMP", "ZeroPageX", 4, FALSE, TRUE) @@
    205 :> Entry("CMP", "Absolute", 4, FALSE, TRUE) @@
    221 :> Entry("CMP", "AbsoluteX", 4, TRUE, TRUE) @@
    217 :> Entry("CMP", "AbsoluteY", 4, TRUE, TRUE) @@
    193 :> Entry("CMP", "IndexedIndirect", 6, FALSE, TRUE) @@
    209 :> Entry("CMP", "IndirectIndexed", 5, TRUE, TRUE) @@
    224 :> Entry("CPX", "Immediate", 2, FALSE, TRUE) @@
    228 :> Entry("CPX", "ZeroPage", 3, FALSE, TRUE) @@
    236 :> Entry("CPX", "Absolute", 4, FALSE, TRUE) @@
    192 :> Entry("CPY", "Immediate", 2, FALSE, TRUE) @@
    196 :> Entry("CPY", "ZeroPage", 3, FALSE, TRUE) @@
    204 :> Entry("CPY", "Absolute", 4, FALSE, TRUE) @@
    198 :> Entry("DEC", "ZeroPage", 5, FALSE, TRUE) @@
    214 :> Entry("DEC", "ZeroPageX", 6, FALSE, TRUE) @@
    206 :> Entry("DEC", "Absolute", 6, FALSE, TRUE) @@
    222 :> Entry("DEC", "AbsoluteX", 7, FALSE, TRUE) @@
    202 :> Entry("DEX", "Implicit", 2, FALSE, TRUE) @@
    136 :> Entry("DEY", "Implicit", 2, FALSE, TRUE) @@
    73 :> Entry("EOR", "Immediate", 2, FALSE, TRUE) @@
    69 :> Entry("EOR", "ZeroPage", 3, FALSE, TRUE) @@
    85 :> Entry("EOR", "ZeroPageX", 4, FALSE, TRUE) @@
    77 :> Entry("EOR", "Absolute", 4, FALSE, TRUE) @@
    93 :> Entry("EOR", "AbsoluteX", 4, TRUE, TRUE) @@
    89 :> Entry("EOR", "AbsoluteY", 4, TRUE, TRUE) @@
    65 :> Entry("EOR", "IndexedIndirect", 6, FALSE, TRUE) @@
    81 :> Entry("EOR", "IndirectIndexed", 5, TRUE, TRUE) @@
    230 :> Entry("INC", "ZeroPage", 5, FALSE, TRUE) @@
    246 :> Entry("INC", "ZeroPageX", 6, FALSE, TRUE) @@
    238 :> Entry("INC", "Absolute", 6, FALSE, TRUE) @@
    254 :> Entry("INC", "AbsoluteX", 7, FALSE, TRUE) @@
    232 :> Entry("INX", "Implicit", 2, FALSE, TRUE) @@
    200 :> Entry("INY", "Implicit", 2, FALSE, TRUE) @@
    76 :> Entry("JMP", "Absolute", 3, FALSE, TRUE) @@
    108 :> Entry("JMP", "Indirect", 5, FALSE, TRUE) @@
    32 :> Entry("JSR", "Absolute", 6, FALSE, TRUE) @@
    169 :> Entry("LDA", "Immediate", 2, FALSE, TRUE) @@
    165 :> Entry("LDA", "ZeroPage", 3, FALSE, TRUE) @@
    181 :> Entry("LDA", "ZeroPageX", 4, FALSE, TRUE) @@
    173 :> Entry("LDA", "Absolute", 4, FALSE, TRUE) @@
    189 :> Entry("LDA", "AbsoluteX", 4, TRUE, TRUE) @@
    185 :> Entry("LDA", "AbsoluteY", 4, TRUE, TRUE) @@
    161 :> Entry("LDA", "IndexedIndirect", 6, FALSE, TRUE) @@
    177 :> Entry("LDA", "IndirectIndexed", 5, TRUE, TRUE) @@
    162 :> Entry("LDX", "Immediate", 2, FALSE, TRUE) @@
    166 :> Entry("LDX", "ZeroPage", 3, FALSE, TRUE) @@
    182 :> Entry("LDX", "ZeroPageY", 4, FALSE, TRUE) @@
    174 :> Entry("LDX", "Absolute", 4, FALSE, TRUE) @@
    190 :> Entry("LDX", "AbsoluteY", 4, TRUE, TRUE) @@
    160 :> Entry("LDY", "Immediate", 2, FALSE, TRUE) @@
    164 :> Entry("LDY", "ZeroPage", 3, FALSE, TRUE) @@
    180 :> Entry("LDY", "ZeroPageX", 4, FALSE, TRUE) @@
    172 :> Entry("LDY", "Absolute", 4, FALSE, TRUE) @@
    188 :> Entry("LDY", "AbsoluteX", 4, TRUE, TRUE) @@
    74 :> Entry("LSR", "Implicit", 2, FALSE, TRUE) @@
    70 :> Entry("LSR", "ZeroPage", 5, FALSE, TRUE) @@
    86 :> Entry("LSR", "ZeroPageX", 6, FALSE, TRUE) @@
    78 :> Entry("LSR", "Absolute", 6, FALSE, TRUE) @@
    94 :> Entry("LSR", "AbsoluteX", 7, FALSE, TRUE) @@
    234 :> Entry("NOP", "Implicit", 2, FALSE, TRUE) @@
    9 :> Entry("ORA", "Immediate", 2, FALSE, TRUE) @@
    5 :> Entry("ORA", "ZeroPage", 3, FALSE, TRUE) @@
    21 :> Entry("ORA", "ZeroPageX", 4, FALSE, TRUE) @@
    13 :> Entry("ORA", "Absolute", 4, FALSE, TRUE) @@
    29 :> Entry("ORA", "AbsoluteX", 4, TRUE, TRUE) @@
    25 :> Entry("ORA", "AbsoluteY", 4, TRUE, TRUE) @@
    1 :> Entry("ORA", "IndexedIndirect", 6, FALSE, TRUE) @@
    17 :> Entry("ORA", "IndirectIndexed", 5, TRUE, TRUE) @@
    72 :> Entry("PHA", "Implicit", 3, FALSE, TRUE) @@
    8 :> Entry("PHP", "Implicit", 3, FALSE, TRUE) @@
    104 :> Entry("PLA", "Implicit", 4, FALSE, TRUE) @@
    40 :> Entry("PLP", "Implicit", 4, FALSE, TRUE) @@
    42 :> Entry("ROL", "Implicit", 2, FALSE, TRUE) @@
    38 :> Entry("ROL", "ZeroPage", 5, FALSE, TRUE) @@
    54 :> Entry("ROL", "ZeroPageX", 6, FALSE, TRUE) @@
    46 :> Entry("ROL", "Absolute", 6, FALSE, TRUE) @@
    62 :> Entry("ROL", "AbsoluteX", 7, FALSE, TRUE) @@
    106 :> Entry("ROR", "Implicit", 2, FALSE, TRUE) @@
    102 :> Entry("ROR", "ZeroPage", 5, FALSE, TRUE) @@
    118 :> Entry("ROR", "ZeroPageX", 6, FALSE, TRUE) @@
    110 :> Entry("ROR", "Absolute", 6, FALSE, TRUE) @@
    126 :> Entry("ROR", "AbsoluteX", 7, FALSE, TRUE) @@
    64 :> Entry("RTI", "Implicit", 6, FALSE, TRUE) @@
    96 :> Entry("RTS", "Implicit", 6, FALSE, TRUE) @@
    233 :> Entry("SBC", "Immediate", 2, FALSE, TRUE) @@
    229 :> Entry("SBC", "ZeroPage", 3, FALSE, TRUE) @@
    245 :> Entry("SBC", "ZeroPageX", 4, FALSE, TRUE) @@
    237 :> Entry("SBC", "Absolute", 4, FALSE, TRUE) @@
    253 :> Entry("SBC", "AbsoluteX", 4, TRUE, TRUE) @@
    249 :> Entry("SBC", "AbsoluteY", 4, TRUE, TRUE) @@
    225 :> Entry("SBC", "IndexedIndirect", 6, FALSE, TRUE) @@
    241 :> Entry("SBC", "IndirectIndexed", 5, TRUE, TRUE) @@
    56 :> Entry("SEC", "Implicit", 2, FALSE, TRUE) @@
    248 :> Entry("SED", "Implicit", 2, FALSE, TRUE) @@
    120 :> Entry("SEI", "Implicit", 2, FALSE, TRUE) @@
    133 :> Entry("STA", "ZeroPage", 3, FALSE, TRUE) @@
    149 :> Entry("STA", "ZeroPageX", 4, FALSE, TRUE) @@
    141 :> Entry("STA", "Absolute", 4, FALSE, TRUE) @@
    157 :> Entry("STA", "AbsoluteX", 5, FALSE, TRUE) @@
    153 :> Entry("STA", "AbsoluteY", 5, FALSE, TRUE) @@
    129 :> Entry("STA", "IndexedIndirect", 6, FALSE, TRUE) @@
    145 :> Entry("STA", "IndirectIndexed", 6, FALSE, TRUE) @@
    134 :> Entry("STX", "ZeroPage", 3, FALSE, TRUE) @@
    150 :> Entry("STX", "ZeroPageY", 4, FALSE, TRUE) @@
    142 :> Entry("STX", "Absolute", 4, FALSE, TRUE) @@
    132 :> Entry("STY", "ZeroPage", 3, FALSE, TRUE) @@
    148 :> Entry("STY", "ZeroPageX", 4, FALSE, TRUE) @@
    140 :> Entry("STY", "Absolute", 4, FALSE, TRUE) @@
    170 :> Entry("TAX", "Implicit", 2, FALSE, TRUE) @@
    168 :> Entry("TAY", "Implicit", 2, FALSE, TRUE) @@
    186 :> Entry("TSX", "Implicit", 2, FALSE, TRUE) @@
    138 :> Entry("TXA", "Implicit", 2, FALSE, TRUE) @@
    154 :> Entry("TXS", "Implicit", 2, FALSE, TRUE) @@
    152 :> Entry("TYA", "Implicit", 2, FALSE, TRUE) @@
    26 :> Entry("NOP", "Implicit", 2, FALSE, FALSE) @@
    58 :> Entry("NOP", "Implicit", 2, FALSE, FALSE) @@
    90 :> Entry("NOP", "Implicit", 2, FALSE, FALSE) @@
    122 :> Entry("NOP", "Implicit", 2, FALSE, FALSE) @@
    218 :> Entry("NOP", "Implicit", 2, FALSE, FALSE) @@
    250 :> Entry("NOP", "Implicit", 2, FALSE, FALSE) @@
    4 :> Entry("NOP", "ZeroPage", 3, FALSE, FALSE) @@
    20 :> Entry("NOP", "ZeroPageX", 4, FALSE, FALSE) @@
    52 :> Entry("NOP", "ZeroPageX", 4, FALSE, FALSE) @@
    68 :> Entry("NOP", "ZeroPage", 3, FALSE, FALSE) @@
    84 :> Entry("NOP", "ZeroPageX", 4, FALSE, FALSE) @@
    100 :> Entry("NOP", "ZeroPage", 3, FALSE, FALSE) @@
    116 :> Entry("NOP", "ZeroPageX", 4, FALSE, FALSE) @@
    128 :> Entry("NOP", "Immediate", 2, FALSE, FALSE) @@
    130 :> Entry("NOP", "Immediate", 2, FALSE, FALSE) @@
    137 :> Entry("NOP", "Immediate", 2, FALSE, FALSE) @@
    194 :> Entry("NOP", "Immediate", 2, FALSE, FALSE) @@
    212 :> Entry("NOP", "ZeroPageX", 4, FALSE, FALSE) @@
    226 :> Entry("NOP", "Immediate", 2, FALSE, FALSE) @@
    244 :> Entry("NOP", "ZeroPageX", 4, FALSE, FALSE) @@
    12 :> Entry("NOP", "Absolute", 4, FALSE, FALSE) @@
    28 :> Entry("NOP", "AbsoluteX", 4, TRUE, FALSE) @@
    60 :> Entry("NOP", "AbsoluteX", 4, TRUE, FALSE) @@
    92 :> Entry("NOP", "AbsoluteX", 4, TRUE, FALSE) @@
    124 :> Entry("NOP", "AbsoluteX", 4, TRUE, FALSE) @@
    220 :> Entry("NOP", "AbsoluteX", 4, TRUE, FALSE) @@
    252 :> Entry("NOP", "AbsoluteX", 4, TRUE, FALSE)

AddrMode_size(mode) ==
    CASE mode \in {"Absolute", "AbsoluteX", "AbsoluteY", "Indirect"} -> 2
      [] mode = "Implicit" -> 0
      [] OTHER -> 1

----------------------------------------------------------------------------
(* CPU: src/src/cpu/mod.rs *)

\* CPUStatusBit::bit_offset
C == 0
Z == 1
I == 2
D == 3
B == 4
U == 5
V == 6
N == 7

CPU_new ==
    [ pc |-> 32768, sp |-> 0, acc |-> 0, reg_x |-> 0, reg_y |-> 0,
      status |-> 0, cycles |-> 0, total_cycles |-> 0 ]

CPU_read(m, addr) == Bus_cpu_read(m, addr)

CPU_write(m, addr, value) == Bus_cpu_write(m, addr, value)

\* `addr + 1` overflows at 0xFFFF
CPU_read_u16(m, addr) ==
    Bind([a \in {CPU_read(m, addr)} |->
    Bind([b \in {CPU_read(a.m, (addr + 1) % 65536)} |->
        [ret |-> b.ret * 256 + a.ret, m |-> Checked(b.m, addr = 65535)] ]) ])

set_status(m, bit, on) == [m EXCEPT !.cpu.status = WithBit(@, bit, on)]

get_status(m, bit) == Bit(m.cpu.status, bit) = 1

update_status_Z_N(m, result) ==
    set_status(set_status(m, Z, result = 0), N, Bit(result, 7) = 1)

stack_pop(m) ==
    LET sp == (m.cpu.sp + 1) % 256
    IN  CPU_read([m EXCEPT !.cpu.sp = sp], 256 + sp)

stack_push(m, data) ==
    [CPU_write(m, 256 + m.cpu.sp, data) EXCEPT !.cpu.sp = (m.cpu.sp + 255) % 256]

stack_pop_u16(m) ==
    Bind([lo \in {stack_pop(m)} |->
    Bind([hi \in {stack_pop(lo.m)} |->
        [ret |-> hi.ret * 256 + lo.ret, m |-> hi.m] ]) ])

\* `self.bus.cpu_write(0x0100 + self.sp as u16, data); self.sp -= 1;`
\* of nmi, BRK and JSR: the decrement overflows at sp = 0
push_unchecked(m, data) ==
    Checked([CPU_write(m, 256 + m.cpu.sp, data) EXCEPT !.cpu.sp = (m.cpu.sp + 255) % 256],
            m.cpu.sp = 0)

\* `self.pc += n`
pc_add(m, n) ==
    Checked([m EXCEPT !.cpu.pc = (m.cpu.pc + n) % 65536], m.cpu.pc + n > 65535)

CPU_reset(m) ==
    Bind([r \in {CPU_read_u16(m, 65532)} |->
        [r.m EXCEPT !.cpu.pc = r.ret,
                    !.cpu.sp = 253,
                    !.cpu.acc = 0,
                    !.cpu.reg_x = 0,
                    !.cpu.reg_y = 0,
                    !.cpu.status = WithBit(WithBit(0, I, TRUE), U, TRUE),
                    !.cpu.cycles = 7] ])

\* the page of an address: addr & 0xFF00
Page(addr) == addr \div 256

\* the pointer read as two consecutive bytes wherever it is
read_zp_pointer_no_wrap(m, zp) == CPU_read_u16(m, zp)

\* the pointer read of the (zp,X) and (zp),Y modes at zero-page address zp:
\* the high byte comes from $0000 when zp = $FF
read_zp_pointer(m, zp) ==
    IF zp = 255
    THEN Bind([a \in {CPU_read(m, 255)} |->
         Bind([b \in {CPU_read(a.m, 0)} |->
             [ret |-> b.ret * 256 + a.ret, m |-> b.m] ]) ])
    ELSE CPU_read_u16(m, zp)

\* return (oprand addr, cycles to advance): [addr, cycles, m]
peak_oprand_addr_and_cycles(m, addr_mode, inc_cycle_on_page_crossed) ==
    Bind([r8 \in {CPU_read(m, m.cpu.pc)} |->
    Bind([r16 \in {CPU_read_u16(r8.m, m.cpu.pc)} |->
    LET next_u8 == r8.ret
        next_u16 == r16.ret
        next_i8 == IF next_u8 >= 128 THEN next_u8 - 256 ELSE next_u8
        m1 == r16.m
        x == m.cpu.reg_x
        y == m.cpu.reg_y
        crossed(a, base) ==
            IF Page(a) # Page(base) /\ inc_cycle_on_page_crossed THEN 1 ELSE 0
    IN  CASE addr_mode = "Absolute" -> [addr |-> next_u16, cycles |-> 0, m |-> m1]
          [] addr_mode = "AbsoluteX" ->
              LET addr == (next_u16 + x) % 65536
              IN  [addr |-> addr, cycles |-> crossed(addr, next_u16), m |-> m1]
          [] addr_mode = "AbsoluteY" ->
              LET addr == (next_u16 + y) % 65536
              IN  [addr |-> addr, cycles |-> crossed(addr, next_u16), m |-> m1]
          [] addr_mode = "ZeroPage" -> [addr |-> next_u8, cycles |-> 0, m |-> m1]
          [] addr_mode = "ZeroPageX" ->
              [addr |-> (next_u8 + x) % 256, cycles |-> 0, m |-> m1]
          [] addr_mode = "ZeroPageY" ->
              [addr |-> (next_u8 + y) % 256, cycles |-> 0, m |-> m1]
          [] addr_mode = "Immediate" -> [addr |-> m.cpu.pc, cycles |-> 0, m |-> m1]
          [] addr_mode = "Relative" ->
              [addr |-> (m.cpu.pc + 1 + next_i8 + 65536) % 65536,
               cycles |-> 0, m |-> m1]
          [] addr_mode = "Implicit" -> [addr |-> 0, cycles |-> 0, m |-> m1]
          [] addr_mode = "Indirect" ->
              Bind([r \in {CPU_read_u16(m1, next_u16)} |->
                  [addr |-> r.ret, cycles |-> 0, m |-> r.m] ])
          [] addr_mode = "IndexedIndirect" ->
              LET indexed == (next_u8 + x) % 256
                  r0 == IF indexed = 255 THEN CPU_read_u16(m1, indexed).m ELSE m1
              IN  Bind([r \in {read_zp_pointer(r0, indexed)} |->
                      [addr |-> r.ret, cycles |-> 0, m |-> r.m] ])
          [] OTHER -> \* IndirectIndexed
              Bind([before \in {read_zp_pointer(m1, next_u8)} |->
              Bind([again \in {CPU_read_u16(before.m, next_u8)} |->
                  LET addr == (before.ret + y) % 65536
                  IN  [addr |-> addr, cycles |-> crossed(addr, again.ret),
                       m |-> again.m] ]) ]) ]) ])

\* the Instruction an unknown opcode byte never yields: the lookup panics
NoInstruction ==
    [ opcode_byte |-> 0, oprand_addr |-> 0, cycles |-> 1,
      spec |-> Entry("NOP", "Implicit", 1, FALSE, FALSE) ]

\* [inst, m]
fetch_next_instruction(m) ==
    Bind([r \in {CPU_read(m, m.cpu.pc)} |->
    LET opcode_byte == r.ret
        m1 == pc_add(r.m, 1)
    IN  IF opcode_byte \notin DOMAIN SPEC_TABLE
        THEN [inst |-> NoInstruction, m |-> Panic(m1)]
        ELSE Bind([spec \in {SPEC_TABLE[opcode_byte]} |->
             Bind([o \in {peak_oprand_addr_and_cycles(
                              m1, spec.addr_mode, spec.inc_cycle_on_page_crossed)} |->
                 [inst |-> [ opcode_byte |-> opcode_byte,
                             oprand_addr |-> o.addr,
                             spec        |-> spec,
                             cycles      |-> spec.base_cycles + o.cycles ],
                  m |-> pc_add(o.m, AddrMode_size(spec.addr_mode))] ]) ]) ])

\* handle_branching, nested in execute_inst
\* the page test made against the page of the branch opcode
handle_branching_from_opcode(m, oprand_addr) ==
    [m EXCEPT !.cpu.cycles = @ + 1 + (IF Page(oprand_addr) # Page(m.cpu.pc - 2) THEN 1 ELSE 0),
              !.cpu.pc = oprand_addr]

handle_branching(m, oprand_addr) ==
    [m EXCEPT !.cpu.cycles = @ + 1 + (IF Page(oprand_addr) # Page(m.cpu.pc) THEN 1 ELSE 0),
              !.cpu.pc = oprand_addr]

branch_if(m, cond, oprand_addr) ==
    IF cond THEN handle_branching(m, oprand_addr) ELSE m

\* the value ASL, LSR, ROL and ROR work on: [ret, m]
shift_oprand(m, addr_mode, oprand_addr) ==
    IF addr_mode = "Implicit"
    THEN [ret |-> m.cpu.acc, m |-> m]
    ELSE CPU_read(m, oprand_addr)

\* where they put their result
shift_result(m, addr_mode, oprand_addr, result) ==
    IF addr_mode = "Implicit"
    THEN [m EXCEPT !.cpu.acc = result]
    ELSE CPU_write(m, oprand_addr, result)

\* ADC taking the signed overflow to be the carry out
exec_ADC_overflow_is_carry(m, oprand) ==
    LET acc == m.cpu.acc
        tmp == acc + oprand + Bit(m.cpu.status, C)
        result == tmp % 256
        m1 == set_status(m, C, tmp > 255)
        m2 == set_status(m1, Z, result = 0)
        m3 == set_status(m2, V, tmp > 255)
        m4 == set_status(m3, N, Bit(tmp, 7) = 1)
    IN  [m4 EXCEPT !.cpu.acc = result]

exec_ADC(m, oprand) ==
    LET acc == m.cpu.acc
        c == Bit(m.cpu.status, C)
        tmp == acc + oprand + c
        result == tmp % 256
        overflow == BitAnd(BitAnd(BitXor(result, oprand), BitXor(acc, result)), 128) # 0
        m1 == set_status(m, C, tmp > 255)
        m2 == set_status(m1, Z, result = 0)
        m3 == set_status(m2, V, overflow)
        m4 == set_status(m3, N, Bit(tmp, 7) = 1)
    IN  [m4 EXCEPT !.cpu.acc = result]

\* SBC adding the two's complement of its operand
exec_SBC_twos_complement(m, oprand) ==
    LET acc == m.cpu.acc
        value == (256 - oprand) % 256
        tmp == acc + value + Bit(m.cpu.status, C)
        overflow == BitAnd(BitAnd(BitXor(tmp, acc), BitXor(tmp, value)), 128) # 0
        m1 == set_status(m, C, tmp \div 256 # 0)
        m2 == set_status(m1, Z, tmp % 256 = 0)
        m3 == set_status(m2, V, overflow)
        m4 == set_status(m3, N, Bit(tmp, 7) = 1)
    IN  [m4 EXCEPT !.cpu.acc = tmp % 256]

exec_SBC(m, oprand) ==
    LET acc == m.cpu.acc
        value == BitXor(oprand, 255)
        tmp == acc + value + Bit(m.cpu.status, C)
        overflow == BitAnd(BitAnd(BitXor(tmp, acc), BitXor(tmp, value)), 128) # 0
        m1 == set_status(m, C, tmp \div 256 # 0)
        m2 == set_status(m1, Z, tmp % 256 = 0)
        m3 == set_status(m2, V, overflow)
        m4 == set_status(m3, N, Bit(tmp, 7) = 1)
    IN  [m4 EXCEPT !.cpu.acc = tmp % 256]

exec_compare(m, reg, oprand) ==
    update_status_Z_N(set_status(m, C, reg >= oprand), (reg - oprand + 256) % 256)

exec_ASL(m, addr_mode, oprand_addr) ==
    Bind([o \in {shift_oprand(m, addr_mode, oprand_addr)} |->
    LET tmp == o.ret * 2
        m1 == set_status(o.m, C, Bit(o.ret, 7) = 1)
        m2 == set_status(m1, Z, tmp % 256 = 0)
        m3 == set_status(m2, N, Bit(tmp, 7) = 1)
    IN  shift_result(m3, addr_mode, oprand_addr, tmp % 256) ])

exec_LSR(m, addr_mode, oprand_addr) ==
    Bind([o \in {shift_oprand(m, addr_mode, oprand_addr)} |->
    LET result == o.ret \div 2
        m1 == set_status(o.m, C, o.ret % 2 = 1)
    IN  shift_result(update_status_Z_N(m1, result), addr_mode, oprand_addr, result) ])

\* ROL without its last carry assignment: the carry comes from the
\* narrowed shift alone
exec_ROL_carry_of_tmp(m, addr_mode, oprand_addr) ==
    Bind([o \in {shift_oprand(m, addr_mode, oprand_addr)} |->
    LET c_bits == Bit(o.m.cpu.status, C)
        tmp == BitOr((o.ret * 2) % 256, c_bits)
        m1 == set_status(o.m, C, tmp \div 256 # 0)
        result == tmp % 256
        m2 == update_status_Z_N(m1, result)
    IN  shift_result(m2, addr_mode, oprand_addr, result) ])

exec_ROL(m, addr_mode, oprand_addr) ==
    Bind([o \in {shift_oprand(m, addr_mode, oprand_addr)} |->
    LET c_bits == Bit(o.m.cpu.status, C)
        \* (oprand << 1) is a u8 shift: bit 7 is lost before the widening
        tmp == BitOr((o.ret * 2) % 256, c_bits)
        m1 == set_status(o.m, C, tmp \div 256 # 0)
        result == tmp % 256
        m2 == update_status_Z_N(m1, result)
        m3 == set_status(m2, C, Bit(o.ret, 7) = 1)
    IN  shift_result(m3, addr_mode, oprand_addr, result) ])

exec_ROR(m, addr_mode, oprand_addr) ==
    Bind([o \in {shift_oprand(m, addr_mode, oprand_addr)} |->
    LET c_bits == Bit(o.m.cpu.status, C)
        tmp == BitOr(c_bits * 128, o.ret \div 2)
        result == tmp % 256
        m1 == update_status_Z_N(o.m, result)
        m2 == set_status(m1, C, o.ret % 2 # 0)
    IN  shift_result(m2, addr_mode, oprand_addr, result) ])

\* BRK without its last `set_status(B, false)`
exec_BRK_leaves_B(m) ==
    Bind([m2 \in {set_status(pc_add(m, 1), I, TRUE)} |->
    Bind([m3 \in {push_unchecked(m2, m2.cpu.pc \div 256)} |->
    Bind([m5 \in {set_status(push_unchecked(m3, m3.cpu.pc % 256), B, TRUE)} |->
    Bind([m7 \in {push_unchecked(m5, m5.cpu.status)} |->
    Bind([lo \in {CPU_read(m7, 65534)} |->
    Bind([hi \in {CPU_read(lo.m, 65535)} |->
        [hi.m EXCEPT !.cpu.pc = BitOr(lo.ret, hi.ret * 256)] ]) ]) ]) ]) ]) ])

exec_BRK(m) ==
    Bind([m2 \in {set_status(pc_add(m, 1), I, TRUE)} |->
    Bind([m3 \in {push_unchecked(m2, m2.cpu.pc \div 256)} |->
    Bind([m5 \in {set_status(push_unchecked(m3, m3.cpu.pc % 256), B, TRUE)} |->
    Bind([m7 \in {set_status(push_unchecked(m5, m5.cpu.status), B, FALSE)} |->
    Bind([lo \in {CPU_read(m7, 65534)} |->
    Bind([hi \in {CPU_read(lo.m, 65535)} |->
        [hi.m EXCEPT !.cpu.pc = BitOr(lo.ret, hi.ret * 256)] ]) ]) ]) ]) ]) ])

exec_JMP(m, inst) ==
    Bind([size \in {AddrMode_size(inst.spec.addr_mode)} |->
    Bind([r \in {CPU_read_u16(Checked(m, m.cpu.pc < size),
                              (m.cpu.pc - size + 65536) % 65536)} |->
    LET a_addr == r.ret
    IN  IF inst.spec.addr_mode = "Indirect"
        THEN LET b_addr == IF a_addr % 256 = 255
                           THEN Page(a_addr) * 256
                           ELSE (a_addr + 1) % 65536
             IN  Bind([a \in {CPU_read(r.m, a_addr)} |->
                 Bind([b \in {CPU_read(a.m, b_addr)} |->
                     [b.m EXCEPT !.cpu.pc = b.ret * 256 + a.ret] ]) ])
        ELSE [r.m EXCEPT !.cpu.pc = inst.oprand_addr] ]) ])

exec_JSR(m, oprand_addr) ==
    Bind([m1 \in {Checked([m EXCEPT !.cpu.pc = (m.cpu.pc + 65535) % 65536],
                          m.cpu.pc = 0)} |->
    Bind([m2 \in {push_unchecked(m1, m1.cpu.pc \div 256)} |->
    Bind([m3 \in {push_unchecked(m2, m2.cpu.pc % 256)} |->
        [m3 EXCEPT !.cpu.pc = oprand_addr] ]) ]) ])

exec_PHP(m) ==
    LET result == WithBit(WithBit(m.cpu.status, B, TRUE), U, TRUE)
        m1 == set_status(set_status(m, B, FALSE), U, FALSE)
    IN  stack_push(m1, result)

\* PLP taking the Break bit from the stack
exec_PLP_keeps_B(m) ==
    Bind([r \in {stack_pop(m)} |->
        set_status([r.m EXCEPT !.cpu.status = r.ret], U, TRUE) ])

exec_PLP(m) ==
    Bind([r \in {stack_pop(m)} |->
        set_status(set_status([r.m EXCEPT !.cpu.status = r.ret], B, FALSE), U, TRUE) ])

exec_RTI(m) ==
    Bind([r \in {stack_pop(m)} |->
    LET m1 == set_status(set_status([r.m EXCEPT !.cpu.status = r.ret], B, FALSE), U, TRUE)
    IN  Bind([a \in {stack_pop_u16(m1)} |->
            [a.m EXCEPT !.cpu.pc = a.ret] ]) ])

load(m, reg, value) ==
    update_status_Z_N(
        CASE reg = "acc" -> [m EXCEPT !.cpu.acc = value]
          [] reg = "reg_x" -> [m EXCEPT !.cpu.reg_x = value]
          [] OTHER -> [m EXCEPT !.cpu.reg_y = value],
        value)

execute_inst(m0, inst) ==
    Bind([rd \in {CPU_read(m0, inst.oprand_addr)} |->
    Bind([m \in {rd.m} |->
    LET addr_mode == inst.spec.addr_mode
        oprand_addr == inst.oprand_addr
        oprand == rd.ret
        op == inst.spec.opcode
    IN  CASE op = "ADC" -> exec_ADC(m, oprand)
          [] op = "SBC" -> exec_SBC(m, oprand)
          [] op = "AND" ->
              LET acc == BitAnd(m.cpu.acc, oprand)
                  m1 == [m EXCEPT !.cpu.acc = acc]
              IN  set_status(set_status(m1, Z, acc = 0), N, Bit(acc, 7) = 1)
          [] op = "ASL" -> exec_ASL(m, addr_mode, oprand_addr)
          [] op = "BCC" -> branch_if(m, ~get_status(m, C), oprand_addr)
          [] op = "BCS" -> branch_if(m, get_status(m, C), oprand_addr)
          [] op = "BEQ" -> branch_if(m, get_status(m, Z), oprand_addr)
          [] op = "BIT" ->
              LET m1 == set_status(m, Z, BitAnd(oprand, m.cpu.acc) = 0)
                  m2 == set_status(m1, N, Bit(oprand, 7) = 1)
              IN  set_status(m2, V, Bit(oprand, 6) = 1)
          [] op = "BMI" -> branch_if(m, get_status(m, N), oprand_addr)
          [] op = "BNE" -> branch_if(m, ~get_status(m, Z), oprand_addr)
          [] op = "BPL" -> branch_if(m, ~get_status(m, N), oprand_addr)
          [] op = "BRK" -> exec_BRK(m)
          [] op = "BVC" -> branch_if(m, ~get_status(m, V), oprand_addr)
          [] op = "BVS" -> branch_if(m, get_status(m, V), oprand_addr)
          [] op = "CLC" -> set_status(m, C, FALSE)
          [] op = "CLD" -> set_status(m, D, FALSE)
          [] op = "CLI" -> set_status(m, I, FALSE)
          [] op = "CLV" -> set_status(m, V, FALSE)
          [] op = "CMP" -> exec_compare(m, m.cpu.acc, oprand)
          [] op = "CPX" -> exec_compare(m, m.cpu.reg_x, oprand)
          [] op = "CPY" -> exec_compare(m, m.cpu.reg_y, oprand)
          [] op = "DEC" ->
              LET result == (oprand + 255) % 256
              IN  update_status_Z_N(CPU_write(m, oprand_addr, result), result)
          [] op = "DEX" -> load(m, "reg_x", (m.cpu.reg_x + 255) % 256)
          [] op = "DEY" -> load(m, "reg_y", (m.cpu.reg_y + 255) % 256)
          [] op = "EOR" -> load(m, "acc", BitXor(m.cpu.acc, oprand))
          [] op = "INC" ->
              LET result == (oprand + 1) % 256
              IN  update_status_Z_N(CPU_write(m, oprand_addr, result), result)
          [] op = "INX" -> load(m, "reg_x", (m.cpu.reg_x + 1) % 256)
          [] op = "INY" -> load(m, "reg_y", (m.cpu.reg_y + 1) % 256)
          [] op = "JMP" -> exec_JMP(m, inst)
          [] op = "JSR" -> exec_JSR(m, oprand_addr)
          [] op = "LDA" -> load(m, "acc", oprand)
          [] op = "LDX" -> load(m, "reg_x", oprand)
          [] op = "LDY" -> load(m, "reg_y", oprand)
          [] op = "LSR" -> exec_LSR(m, addr_mode, oprand_addr)
          [] op = "NOP" -> m
          [] op = "ORA" -> load(m, "acc", BitOr(m.cpu.acc, oprand))
          [] op = "PHA" -> stack_push(m, m.cpu.acc)
          [] op = "PHP" -> exec_PHP(m)
          [] op = "PLA" ->
              Bind([r \in {stack_pop(m)} |-> load(r.m, "acc", r.ret)])
          [] op = "PLP" -> exec_PLP(m)
          [] op = "ROL" -> exec_ROL(m, addr_mode, oprand_addr)
          [] op = "ROR" -> exec_ROR(m, addr_mode, oprand_addr)
          [] op = "RTI" -> exec_RTI(m)
          [] op = "RTS" ->
              Bind([r \in {stack_pop_u16(m)} |->
                  [r.m EXCEPT !.cpu.pc = (r.ret + 1) % 65536] ])
          [] op = "SEC" -> set_status(m, C, TRUE)
          [] op = "SED" -> set_status(m, D, TRUE)
          [] op = "SEI" -> set_status(m, I, TRUE)
          [] op = "STA" -> CPU_write(m, oprand_addr, m.cpu.acc)
          [] op = "STX" -> CPU_write(m, oprand_addr, m.cpu.reg_x)
          [] op = "STY" -> CPU_write(m, oprand_addr, m.cpu.reg_y)
          [] op = "TAX" -> load(m, "reg_x", m.cpu.acc)
          [] op = "TAY" -> load(m, "reg_y", m.cpu.acc)
          [] op = "TSX" -> load(m, "reg_x", m.cpu.sp)
          [] op = "TXA" -> load(m, "acc", m.cpu.reg_x)
          [] op = "TXS" -> [m EXCEPT !.cpu.sp = m.cpu.reg_x]
          [] OTHER -> load(m, "acc", m.cpu.reg_y) ]) ]) \* TYA

\* execute_next_instruction without the second `set_status(U, true)`
execute_next_instruction_no_final_U(m) ==
    Bind([f \in {fetch_next_instruction(set_status(m, U, TRUE))} |->
        execute_inst([f.m EXCEPT !.cpu.cycles = f.inst.cycles], f.inst) ])

execute_next_instruction(m) ==
    \* Always set the unused status flag bit to 1
    Bind([f \in {fetch_next_instruction(set_status(m, U, TRUE))} |->
    LET m2 == [f.m EXCEPT !.cpu.cycles = f.inst.cycles]
        m3 == execute_inst(m2, f.inst)
    IN  \* Always set the unused status flag bit to 1
        set_status(m3, U, TRUE) ])

\* one cycle of execution; execute_next_instruction leaves cycles >= 1, as
\* every base_cycles of SPEC_TABLE is at least 2
CPU_tick(m) ==
    LET m1 == IF m.cpu.cycles = 0 THEN execute_next_instruction(m) ELSE m
    IN  [m1 EXCEPT !.cpu.cycles = @ - 1, !.cpu.total_cycles = @ + 1]

\* return: number of cycles of nmi (always 8): [ret, m]
CPU_nmi(m) ==
    Bind([m1 \in {push_unchecked(m, m.cpu.pc \div 256)} |->
    Bind([m2 \in {push_unchecked(m1, m1.cpu.pc % 256)} |->
    Bind([m3 \in {set_status(set_status(set_status(m2, B, FALSE), U, TRUE), I, TRUE)} |->
    Bind([m4 \in {push_unchecked(m3, m3.cpu.status)} |->
    Bind([lo \in {CPU_read(m4, 65530)} |->
    Bind([hi \in {CPU_read(lo.m, 65531)} |->
        [ret |-> 8,
         m |-> [hi.m EXCEPT !.cpu.pc = BitOr(hi.ret * 256, lo.ret)]] ]) ]) ]) ]) ]) ])

\* one iteration of the loop of run_with_callback, up to the call of
\* bus.cpu_tick(); the callback of run() does nothing
run_iteration(m) ==
    LET m1 == IF Bus_has_nmi(m)
              THEN Bind([r \in {CPU_nmi(m)} |->
                       Bus_reset_nmi([r.m EXCEPT !.cpu.cycles = r.ret]) ])
              ELSE m
    IN  CPU_tick(m1)

----------------------------------------------------------------------------
(* The machine of the current state, and the states a specification does   *)
(* not use                                                                  *)

Machine == [cpu |-> cpu, bus |-> bus, ppu |-> ppu, panic |-> FALSE, overflow |-> FALSE]

NoBus == [none |-> TRUE]
NoCpu == [none |-> TRUE]

VB(p) == is_vblank_started(p.status_reg)
EN(p) == is_generate_nmi(p.ctrl_reg)

\* a step that moves the dot: a PPU tick
Ticked == ppu'.cycles # ppu.cycles

----------------------------------------------------------------------------
(* SpecPPU: the PPU driven through its public methods, any call at any     *)
(* dot of the frame, with the run loop's NMI service.  hist.nmis counts the *)
(* NMIs the CPU has serviced since the PPU last entered scanline 241.       *)

\* values written to the control register: NMI generation off and on
CtrlValues == {0, 128}

InitPPU ==
    /\ ppu = PPU_new([data |-> Empty, len |-> 0], "Horizontal")
    /\ bus = NoBus
    /\ cpu = NoCpu
    /\ phase = "api"
    /\ hist = [nmis |-> 0]

PpuTick ==
    /\ ppu' = PPU_tick(ppu)
    /\ hist' = IF ppu'.scanlines = VBLANK_SCANLINE /\ ppu.scanlines # VBLANK_SCANLINE
               THEN [nmis |-> 0]
               ELSE hist
    /\ UNCHANGED <<bus, cpu, phase>>

PpuReadStatus ==
    /\ ppu' = PPU_read_status_reg(ppu).ppu
    /\ UNCHANGED <<bus, cpu, phase, hist>>

PpuWriteCtrl ==
    \E v \in CtrlValues :
        /\ ppu' = PPU_write_ctrl_reg(ppu, v)
        /\ UNCHANGED <<bus, cpu, phase, hist>>

\* `if self.bus.has_nmi() { self.cycles = self.nmi(); self.bus.reset_nmi(); }`
\* as the PPU sees it
CpuServiceNmi ==
    /\ PPU_has_nmi(ppu)
    /\ ppu' = PPU_reset_nmi(ppu)
    /\ hist' = [nmis |-> hist.nmis + 1]
    /\ UNCHANGED <<bus, cpu, phase>>

NextPPU == PpuTick \/ PpuReadStatus \/ PpuWriteCtrl \/ CpuServiceNmi

SpecPPU == InitPPU /\ [][NextPPU]_vars

\* C2: after any number of ticks from (scanline 0, cycle 0) the scanline is
\* in 0..261 and the cycle in 0..340; a tick at cycle 340 resets the cycle to
\* 0 and increments the scanline, which resets to 0 instead of reaching 262;
\* any other tick increments the cycle only.
C2_DotInFrame ==
    [][ /\ ppu.scanlines \in 0..261 /\ ppu.cycles \in 0..340
        /\ ppu'.scanlines \in 0..261 /\ ppu'.cycles \in 0..340
        /\ Ticked =>
             IF ppu.cycles = 340
             THEN /\ ppu'.cycles = 0
                  /\ ppu'.scanlines = IF ppu.scanlines = 261 THEN 0
                                      ELSE ppu.scanlines + 1
             ELSE /\ ppu'.cycles = ppu.cycles + 1
                  /\ ppu'.scanlines = ppu.scanlines ]_vars

\* the PPU is back on scanline 0 in the frame after an NMI was serviced
C2_Witness == ppu.scanlines = 0 /\ ppu.cycles = 5 /\ hist.nmis = 1

\* C3: the NMI-pending flag goes from false to true only at a step where
\* (vblank flag AND NMI-enable) goes from false to true, and the CPU services
\* at most one NMI per entry into scanline 241, whatever status reads and
\* control-register writes happen.
C3_NmiEdge ==
    [][ /\ (~ppu.nmi /\ ppu'.nmi) =>
              (~(VB(ppu) /\ EN(ppu)) /\ VB(ppu') /\ EN(ppu'))
        /\ hist'.nmis <= 1 ]_vars

\* during vblank, after the NMI was serviced, the status read and NMI
\* generation switched off and on again: no second NMI is pending
C3_Witness ==
    /\ hist.nmis = 1
    /\ ppu.scanlines \in 241..260
    /\ ~VB(ppu)
    /\ EN(ppu)
    /\ ~ppu.nmi

\* C8: the vblank flag becomes set when the PPU reaches scanline 241,
\* cycle 1, and the PPU clears it at cycle 1 of scanline 261; the PPU never
\* sets it on scanlines 0..240.
C8_VblankAtCycle1 ==
    [][ /\ (~VB(ppu) /\ VB(ppu')) =>
              (ppu'.scanlines = 241 /\ ppu'.cycles = 1)
        /\ (Ticked /\ VB(ppu) /\ ~VB(ppu')) =>
              (ppu'.scanlines = 261 /\ ppu'.cycles = 1)
        /\ (VB(ppu') /\ ~VB(ppu)) => ppu'.scanlines \notin 0..240 ]_vars

----------------------------------------------------------------------------
(* Spec: the console.  A cartridge is built from a program, the CPU is      *)
(* reset and run() loops: one CpuStep is one iteration of the loop up to    *)
(* its call of bus.cpu_tick(), and the ClockSteps that follow are that      *)
(* call.  hist keeps, for the properties:                                   *)
(*   limit     the number of CPU cycles the run is followed for             *)
(*   last_op   the opcode of the last instruction executed                  *)
(*   nmi_at    the cycle countdown the last NMI was serviced at (-1: none)  *)
(*   dma_wait  the CPU cycles withheld in a row up to now                   *)
(*   dma_span  the length of the last finished row of withheld cycles       *)
(*   dma_pc    the program counter after the last write that started a DMA  *)

\* Cartridge::new_from_program; the program is given by its non-zero bytes
Cartridge_new_from_program(program, len) ==
    [ mirror        |-> "Horizontal",
      num_prg_banks |-> 1,
      num_chr_banks |-> 1,
      prg_rom       |-> [data |-> program,
                         len  |-> IF len < 16 * 1024 THEN 16 * 1024 ELSE len],
      chr_rom       |-> [data |-> Empty, len |-> 0] ]

\* the non-zero bytes of seq, placed from offset base on
Bytes(base, seq) ==
    [a \in {base + j - 1 : j \in {k \in 1..Len(seq) : seq[k] # 0}} |-> seq[a - base + 1]]

\* a 16 KiB PRG image: the program at $8000, the NMI handler at $9000, a
\* `JMP $9100` at $9100 for BRK, and the three vectors at $FFFA
Rom(main, handler) ==
    Bytes(0, main) @@ Bytes(4096, handler) @@ Bytes(4352, <<76, 0, 145>>)
        @@ Bytes(16378, <<0, 144, 0, 128, 0, 145>>)

RTI_handler == <<64>>

\* LDA $2002; LDA #0; STA $2000; LDA #$80; STA $2000; RTI
Busy_handler == <<173, 2, 32, 169, 0, 141, 0, 32, 169, 128, 141, 0, 32, 64>>

Nops(k) == [j \in 1..k |-> 234]

\* k NOPs; LDA #$80; STA $2000; spin: JMP spin
NmiProgram(k) == Nops(k) \o <<169, 128, 141, 0, 32, 76, k + 5, 128>>

\* LDX #0; loop: TXA; STA $0200,X; INX; BNE loop; k NOPs and, with odd,
\* a LDA $00; LDA #page; STA $4014; spin: JMP spin
DmaProgram(page, k, odd) ==
    <<162, 0, 138, 157, 0, 2, 232, 208, 249>> \o Nops(k)
        \o (IF odd THEN <<165, 0>> ELSE << >>)
        \o <<169, page, 141, 20, 64, 76, 14 + k + (IF odd THEN 2 ELSE 0), 128>>

\* LDA #v; PHA; PLP; PHA; the instruction op with its operand bytes;
\* spin: JMP spin
OpProgram(v, op, b1, b2) ==
    LET size == AddrMode_size(SPEC_TABLE[op].addr_mode)
        operand == CASE size = 0 -> << >> [] size = 1 -> <<b1>> [] OTHER -> <<b1, b2>>
    IN  <<169, v, 72, 40, 72, op>> \o operand \o <<76, 6 + size, 128>>

\* the bytes PLP, RTI and PLA pull in OpProgram
PulledBytes == {0, 255}

\* the operand bytes of OpProgram
Operands == {<<16, 0>>, <<255, 1>>}

FrameCycles == 30400
DmaCycles == 3700
OpCycles == 40

Programs ==
    {[rom |-> Rom(NmiProgram(k), RTI_handler), limit |-> FrameCycles] : k \in {0, 1}}
    \cup {[rom |-> Rom(NmiProgram(2), Busy_handler), limit |-> FrameCycles]}
    \cup {[rom |-> Rom(DmaProgram(2, k, FALSE), RTI_handler), limit |-> DmaCycles] : k \in {0, 1}}
    \cup {[rom |-> Rom(DmaProgram(128, 0, odd), RTI_handler), limit |-> DmaCycles] :
             odd \in BOOLEAN}
    \cup {[rom |-> Rom(OpProgram(v, op, b[1], b[2]), RTI_handler), limit |-> OpCycles] :
             v \in PulledBytes, op \in DOMAIN SPEC_TABLE, b \in Operands}
    \* an opcode byte that is not in SPEC_TABLE
    \cup {[rom |-> Rom(<<2>>, RTI_handler), limit |-> OpCycles]}
    \* LDX #0; TXS; BRK: pushes with the stack pointer at 0
    \cup {[rom |-> Rom(<<162, 0, 154, 0>>, RTI_handler), limit |-> OpCycles]}

Init ==
    \E pr \in Programs :
        LET cart == Cartridge_new_from_program(pr.rom, 16384)
            m == CPU_reset([ cpu |-> CPU_new,
                             bus |-> Bus_new(cart),
                             ppu |-> PPU_new(cart.chr_rom, cart.mirror),
                             panic |-> FALSE, overflow |-> FALSE ])
        IN  /\ cpu = m.cpu
            /\ bus = m.bus
            /\ ppu = m.ppu
            /\ phase = "cpu"
            /\ hist = [ limit |-> pr.limit, last_op |-> "none", nmi_at |-> -1,
                        dma_wait |-> 0, dma_span |-> 0, dma_pc |-> 0 ]

\* the step ends in the machine m: the run goes on, unless the step
\* panicked; where an unchecked addition overflowed, a build with overflow
\* checks panics and one without goes on with the wrapped value
Continue(m, next_phase, h) ==
    /\ ~m.panic
    /\ cpu' = m.cpu
    /\ bus' = m.bus
    /\ ppu' = m.ppu
    /\ phase' = next_phase
    /\ hist' = h

Abort(m) ==
    /\ m.panic \/ m.overflow
    /\ phase' = "panic"
    /\ UNCHANGED <<cpu, bus, ppu, hist>>

\* the opcode the CPU is about to execute
NextOpcode ==
    LET b == Bus_cpu_read(Machine, cpu.pc).ret
    IN  IF b \in DOMAIN SPEC_TABLE THEN SPEC_TABLE[b].opcode ELSE "none"

CpuStep ==
    /\ phase = "cpu"
    /\ cpu.total_cycles < hist.limit
    /\ \E m \in {run_iteration(Machine)} :
       LET nmi == Bus_has_nmi(Machine)
           h == [hist EXCEPT
                   !.nmi_at = IF nmi THEN cpu.cycles ELSE @,
                   !.last_op = IF ~nmi /\ cpu.cycles = 0 THEN NextOpcode ELSE @,
                   !.dma_pc = IF m.bus.dma_transfer /\ ~bus.dma_transfer
                              THEN m.cpu.pc ELSE @]
       IN  Continue(m, "clock", h) \/ Abort(m)

\* bus.cpu_tick(): the PPU and the system clock advance until system_tick
\* lets the CPU tick
ClockStep ==
    /\ phase = "clock"
    /\ \E r \in {Bus_system_tick([Machine EXCEPT !.ppu = PPU_tick(@)])} :
       LET slot == U32_mod_3(bus.total_system_cycles) = 0
           h == CASE slot /\ ~r.ret -> [hist EXCEPT !.dma_wait = @ + 1]
                  [] slot /\ r.ret /\ hist.dma_wait > 0 ->
                      [hist EXCEPT !.dma_span = hist.dma_wait, !.dma_wait = 0]
                  [] OTHER -> hist
       IN  Continue(r.m, IF r.ret THEN "cpu" ELSE "clock", h) \/ Abort(r.m)

Next == CpuStep \/ ClockStep

Spec == Init /\ [][Next]_vars

\* C1: at every instruction boundary after reset (before and after each
\* instruction, and after an NMI is serviced) bit 5 (Unused) of the status
\* register is 1, for every opcode of the table and every byte PLP and RTI
\* pull.
C1_UnusedBitSet == Bit(cpu.status, U) = 1

\* PLP has pulled a byte with bit 5 clear
C1_Witness ==
    /\ hist.last_op = "PLP"
    /\ cpu.sp = 253
    /\ Get(bus.cpu_ram, 256 + cpu.sp) = 0
    /\ cpu.status = 32

\* C4: the run loop services a pending NMI only when the cycle countdown of
\* the instruction in progress has reached 0.
C4_NmiAtBoundary == hist.nmi_at \in {-1, 0}

SourceByte(page, i) == Bus_cpu_read(Machine, page * 256 + i).ret

\* C6: a DMA of page P reads the byte of address (P << 8 | i) on an even
\* cycle and writes it to OAM[i] on an odd cycle, for i = 0, 1, ... in
\* increasing order, and ends with OAM[i] equal to that byte for every i in
\* 0..255.
C6_DmaCopiesPage ==
    [][ /\ bus'.dma_data # bus.dma_data =>
              /\ U32_mod_2(bus.total_system_cycles) = 0
              /\ bus'.dma_data = SourceByte(bus.dma_page, bus.dma_addr)
        /\ ppu'.oam_data # ppu.oam_data =>
              /\ bus.dma_transfer
              /\ U32_mod_2(bus.total_system_cycles) = 1
              /\ ppu'.oam_data = Put(ppu.oam_data, bus.dma_addr,
                                     SourceByte(bus.dma_page, bus.dma_addr))
              /\ bus'.dma_addr = (bus.dma_addr + 1) % 256
              /\ \A i \in 0..(bus.dma_addr - 1) :
                     Get(ppu.oam_data, i) = SourceByte(bus.dma_page, i)
        /\ hist.dma_span # 0 =>
              \A i \in 0..255 : Get(ppu.oam_data, i) = SourceByte(bus.dma_page, i) ]_vars

\* the DMA of page $02, primed with 0..255, is over
C6_Witness ==
    /\ hist.dma_span # 0
    /\ bus.dma_page = 2
    /\ Get(ppu.oam_data, 1) = 1
    /\ Get(ppu.oam_data, 255) = 255

----------------------------------------------------------------------------
(* SpecPPUStatus: the status register over the frame.  The PPU is ticked,   *)
(* its status read, rendering switched on and sprite 0 moved to scanline    *)
(* 250, in any order; hist keeps whether the last call was a status read    *)
(* and the value it returned.                                               *)

\* background and sprites shown
MaskValues == {24}

\* the Y of sprite 0, written through $2004 with the OAM address at 0
SpriteYValues == {250}

Other == [op |-> "other", ret |-> 0]

InitStatus ==
    /\ ppu = PPU_new([data |-> Empty, len |-> 0], "Horizontal")
    /\ bus = NoBus
    /\ cpu = NoCpu
    /\ phase = "api"
    /\ hist = Other

StTick ==
    /\ ppu' = PPU_tick(ppu)
    /\ hist' = Other
    /\ UNCHANGED <<bus, cpu, phase>>

StReadStatus ==
    /\ ppu' = PPU_read_status_reg(ppu).ppu
    /\ hist' = [op |-> "read", ret |-> PPU_read_status_reg(ppu).ret]
    /\ UNCHANGED <<bus, cpu, phase>>

StWriteMask ==
    \E v \in MaskValues :
        /\ ppu' = PPU_write_mask_reg(ppu, v)
        /\ hist' = Other
        /\ UNCHANGED <<bus, cpu, phase>>

StWriteOam ==
    \E v \in SpriteYValues :
        /\ ppu.oam_addr = 0
        /\ ppu' = PPU_write_oam_data(Machine, v).ppu
        /\ hist' = Other
        /\ UNCHANGED <<bus, cpu, phase>>

NextStatus == StTick \/ StReadStatus \/ StWriteMask \/ StWriteOam

SpecPPUStatus == InitStatus /\ [][NextStatus]_vars

\* C9: a status read returns the vblank bit as it was before the read and
\* clears it, leaves the other status bits as they were, and a status read
\* that follows at once returns vblank = 0.
C9_StatusRead ==
    [][ hist'.op = "read" =>
          /\ Bit(hist'.ret, 7) = Bit(ppu.status_reg, 7)
          /\ Bit(ppu'.status_reg, 7) = 0
          /\ ppu'.status_reg % 128 = ppu.status_reg % 128
          /\ hist.op = "read" => Bit(hist'.ret, 7) = 0 ]_vars

\* a read has returned vblank and sprite-zero-hit both set, and has left
\* sprite-zero-hit alone
C9_Witness ==
    /\ hist.op = "read"
    /\ hist.ret = 192
    /\ ppu.status_reg = 64

----------------------------------------------------------------------------
(* SpecPPUReg: the address and scroll latches.  hist keeps the last three   *)
(* calls and whether the next address write is due to the high byte: true   *)
(* at first and after a status read, toggled by an address write.           *)

AddrBytes == {18, 52, 63}
ScrollBytes == {7}
MaxOps == 3

Remember(call) ==
    LET ops == Append(hist.ops, call)
    IN  IF Len(ops) > MaxOps THEN Tail(ops) ELSE ops

InitReg ==
    /\ ppu = PPU_new([data |-> Empty, len |-> 0], "Horizontal")
    /\ bus = NoBus
    /\ cpu = NoCpu
    /\ phase = "api"
    /\ hist = [ops |-> << >>, next_hi |-> TRUE]

RegWriteAddr ==
    \E v \in AddrBytes :
        /\ ppu' = PPU_write_addr_reg(ppu, v)
        /\ hist' = [ops |-> Remember(<<"write_addr", v>>), next_hi |-> ~hist.next_hi]
        /\ UNCHANGED <<bus, cpu, phase>>

RegWriteScroll ==
    \E v \in ScrollBytes :
        /\ ppu' = PPU_write_scroll_reg(ppu, v)
        /\ hist' = [hist EXCEPT !.ops = Remember(<<"write_scroll", v>>)]
        /\ UNCHANGED <<bus, cpu, phase>>

RegReadStatus ==
    /\ ppu' = PPU_read_status_reg(ppu).ppu
    /\ hist' = [ops |-> Remember(<<"read_status", 0>>), next_hi |-> TRUE]
    /\ UNCHANGED <<bus, cpu, phase>>

NextReg == RegWriteAddr \/ RegWriteScroll \/ RegReadStatus

SpecPPUReg == InitReg /\ [][NextReg]_vars

LastOp(h) == h.ops[Len(h.ops)]

\* C10: address writes go to the high byte and the low byte in turn, the
\* high byte first, each replacing its own half only; after a status read
\* the next address write goes to the high byte again.
C10_AddrLatch ==
    [][ (hist'.ops # << >> /\ LastOp(hist')[1] = "write_addr" /\ hist' # hist) =>
          IF hist.next_hi
          THEN /\ ppu'.addr_reg.hi = LastOp(hist')[2]
               /\ ppu'.addr_reg.lo = ppu.addr_reg.lo
          ELSE /\ ppu'.addr_reg.lo = LastOp(hist')[2]
               /\ ppu'.addr_reg.hi = ppu.addr_reg.hi ]_vars

\* $12 was written as the high byte, the status read, and $34 written: it
\* replaced the high byte and the low byte is still 0
C10_Witness ==
    /\ hist.ops = << <<"write_addr", 18>>, <<"read_status", 0>>, <<"write_addr", 52>> >>
    /\ ppu.addr_reg.hi = 52
    /\ ppu.addr_reg.lo = 0

----------------------------------------------------------------------------
(* SpecBusTick: system_tick called over and over, no DMA, from a new bus    *)
(* and from a bus whose u32 tick counter is about to wrap.  hist keeps the  *)
(* number of calls, the calls since the last one that let the CPU tick, and *)
(* the distance between the last two calls that let the CPU tick.           *)

MaxBusTicks == 120

\* total_system_cycles = 2^32 - 61
NearWrap == [hi |-> 65535, lo |-> 65475]

InitBusTick ==
    \E t \in {U32_zero, NearWrap} :
        LET cart == Cartridge_new_from_program(Empty, 0)
        IN  /\ bus = [Bus_new(cart) EXCEPT !.total_system_cycles = t]
            /\ ppu = PPU_new(cart.chr_rom, cart.mirror)
            /\ cpu = NoCpu
            /\ phase = "api"
            /\ hist = [ticks |-> 0, gap |-> 0, seen |-> FALSE, last_gap |-> 0]

BusTick ==
    /\ hist.ticks < MaxBusTicks
    /\ LET r == Bus_system_tick(Machine)
       IN  /\ bus' = r.m.bus
           /\ ppu' = r.m.ppu
           /\ hist' = IF r.ret
                      THEN [ticks |-> hist.ticks + 1, gap |-> 0, seen |-> TRUE,
                            last_gap |-> IF hist.seen THEN hist.gap + 1 ELSE 0]
                      ELSE [hist EXCEPT !.ticks = @ + 1, !.gap = @ + 1]
    /\ UNCHANGED <<cpu, phase>>

NextBusTick == BusTick

SpecBusTick == InitBusTick /\ [][NextBusTick]_vars

\* C7: without DMA the bus lets the CPU tick on exactly every third system
\* tick: two calls of system_tick that let the CPU tick, with none between
\* them that does, are three calls apart.
C7_EveryThirdTick == hist.last_gap \in {0, 3}


(***************************************************************************)
(* SpecPPUData: the data register ($2007) behind the address register      *)
(* ($2006) and the control register ($2000).  A run starts from a freshly  *)
(* built PPU, under one of a few sets of addresses and bytes, and makes up *)
(* to hist.limit calls.  hist keeps the last call (its kind, the address   *)
(* it acted on, the byte written or returned) and mem, the byte last       *)
(* written through $2007 to each cell of name-table memory, a cell being a *)
(* physical table and an offset in it.                                     *)
(***************************************************************************)

\* the physical table behind name table nt: 0 is A, 1 is B
PhysicalTable(mirror, nt) ==
    CASE mirror = "Horizontal" -> IF nt \in {0, 1} THEN 0 ELSE 1
      [] mirror = "Vertical" -> IF nt \in {0, 2} THEN 0 ELSE 1
      [] OTHER -> nt

Cell(mirror, addr) == <<PhysicalTable(mirror, (addr % 4096) \div 1024), addr % 1024>>

IsNametable(addr) == addr >= 8192 /\ addr <= 16127
IsPalette(addr) == addr >= 16128 /\ addr <= 16383
IsPattern(addr) == addr >= 0 /\ addr <= 8191

\* the palette entry $3F00-$3F1F behind a palette address: $3F10, $3F14,
\* $3F18 and $3F1C are the entries $3F00, $3F04, $3F08 and $3F0C
PaletteEntry(addr) ==
    IF addr % 32 \in {16, 20, 24, 28} THEN (addr % 32) - 16 ELSE addr % 32

NametableAddrs == {8197, 9221, 10245, 11269, 12293}
PaletteAddrs == {16128, 16144, 16132, 16148, 16129, 16145, 12032}
WrapAddrs == {65535, 65504, 9215, 16383}
PatternAddrs == {0, 8191}
MaxDataOps == 7

DataScenarios ==
    [addrs : {NametableAddrs}, values : {{102, 119}}, ctrls : {{}},
     mirror : {"Horizontal", "Vertical"}, banks : {1}, limit : {MaxDataOps}]
    \cup
    [addrs : {{8197, 10245}}, values : {{102}}, ctrls : {{}},
     mirror : {"FourScreen"}, banks : {1}, limit : {4}]
    \cup
    [addrs : {PaletteAddrs}, values : {{31, 102}}, ctrls : {{}},
     mirror : {"Horizontal"}, banks : {1}, limit : {5}]
    \cup
    [addrs : {WrapAddrs}, values : {{102}}, ctrls : {{0, 4}},
     mirror : {"Horizontal"}, banks : {1}, limit : {5}]
    \cup
    [addrs : {PatternAddrs}, values : {{102}}, ctrls : {{}},
     mirror : {"Horizontal"}, banks : {0, 1}, limit : {3}]

NoCall == [op |-> "none", at |-> 0, value |-> 0]

InitData ==
    \E sc \in DataScenarios :
        /\ ppu = PPU_new([data |-> Empty, len |-> sc.banks * 8192], sc.mirror)
        /\ bus = NoBus
        /\ cpu = NoCpu
        /\ phase = "api"
        /\ hist = [n |-> 0, call |-> NoCall, mem |-> Empty, addrs |-> sc.addrs,
                   values |-> sc.values, ctrls |-> sc.ctrls, banks |-> sc.banks,
                   limit |-> sc.limit]

\* the call returns, or panics and ends the run
DataDone(m, call, mem) ==
    /\ ppu' = IF m.panic THEN ppu ELSE m.ppu
    /\ phase' = IF m.panic THEN "panic" ELSE "api"
    /\ hist' = [hist EXCEPT !.n = @ + 1, !.call = call, !.mem = mem]
    /\ UNCHANGED <<bus, cpu>>

\* two writes of $2006, the high byte first
DataSetAddr ==
    /\ phase = "api" /\ hist.n < hist.limit
    /\ \E a \in hist.addrs :
        DataDone([Machine EXCEPT !.ppu =
                      PPU_write_addr_reg(PPU_write_addr_reg(ppu, a \div 256), a % 256)],
                 [op |-> "addr", at |-> a, value |-> 0], hist.mem)

DataWriteCtrl ==
    /\ phase = "api" /\ hist.n < hist.limit
    /\ \E c \in hist.ctrls :
        DataDone([Machine EXCEPT !.ppu = PPU_write_ctrl_reg(ppu, c)],
                 [op |-> "ctrl", at |-> 0, value |-> c], hist.mem)

DataWrite ==
    /\ phase = "api" /\ hist.n < hist.limit
    /\ \E v \in hist.values, a \in {AddrRegister_get(ppu.addr_reg)} :
        DataDone(PPU_write_data_reg(Machine, v),
                 [op |-> "write", at |-> a, value |-> v],
                 IF IsNametable(a) THEN Put(hist.mem, Cell(ppu.mirror, a), v)
                 ELSE hist.mem)

DataRead ==
    /\ phase = "api" /\ hist.n < hist.limit
    /\ \E r \in {PPU_read_data_reg(Machine)} :
        DataDone(r.m,
                 [op |-> "read", at |-> AddrRegister_get(ppu.addr_reg) % 16384,
                  value |-> r.ret],
                 hist.mem)

NextData == DataSetAddr \/ DataWriteCtrl \/ DataWrite \/ DataRead

SpecPPUData == InitData /\ [][NextData]_vars

\* the step is a call of the kind op that returned
Returned(op) == hist'.n = hist.n + 1 /\ hist'.call.op = op /\ phase' = "api"

C12_PaletteReadRefills ==
    [][ (Returned("read") /\ IsPalette(hist'.call.at)) =>
          /\ hist'.call.value =
                BitAnd(Get(ppu.palette_table, PaletteEntry(hist'.call.at)), 63)
          /\ ppu'.data_buf = Get(hist.mem, Cell(ppu.mirror, hist'.call.at)) ]_vars

\* the byte a $2007 read returns once the address is set to addr: the only
\* read for a palette address, the second of two for a name-table address
ReadBack(p, addr) ==
    Bind([m \in {[Machine EXCEPT !.ppu = [p EXCEPT
                     !.addr_reg = AddrRegister_set(@, addr)]]} |->
        IF IsPalette(addr)
        THEN PPU_read_data_reg(m).ret
        ELSE PPU_read_data_reg([m EXCEPT !.ppu.data_buf =
                 PPU_read_data_reg(m).m.ppu.data_buf]).ret])

C14_NametableMirrors ==
    [][ (Returned("write") /\ IsNametable(hist'.call.at)
            /\ ppu.mirror \in {"Horizontal", "Vertical"}) =>
          \A b \in NametableAddrs \cup {8198, 9222, 10246, 11270, 12294} :
              ReadBack(ppu', b) =
                  IF Cell(ppu.mirror, b) = Cell(ppu.mirror, hist'.call.at)
                  THEN hist'.call.value
                  ELSE ReadBack(ppu, b) ]_vars

\* both physical tables hold a byte: $66 behind $2005, $77 behind $2C05
C14_Witness ==
    /\ hist.call = [op |-> "write", at |-> 11269, value |-> 119]
    /\ ReadBack(ppu, 8197) = 102 /\ ReadBack(ppu, 12293) = 102
    /\ ReadBack(ppu, 9221) = IF ppu.mirror = "Horizontal" THEN 102 ELSE 119
    /\ ReadBack(ppu, 10245) = IF ppu.mirror = "Vertical" THEN 102 ELSE 119
    /\ ReadBack(ppu, 11269) = 119

C19_ChrRomWriteIgnored ==
    [][ (hist'.n = hist.n + 1 /\ hist'.call.op = "write"
            /\ IsPattern(hist'.call.at) /\ hist.banks >= 1) =>
          /\ phase' = "api"
          /\ ppu'.chr_rom = ppu.chr_rom ]_vars

(***************************************************************************)
(* SpecBusIO: CPU reads and writes on the bus, at the RAM, the first       *)
(* joypad ($4016) or the cartridge, and buttons pressed and released by    *)
(* the game-loop callback.  A run makes up to hist.limit reads and writes  *)
(* at one of the three.  hist keeps the last call, whether the last write  *)
(* to $4016 had bit 0 set (strobe), whether one ever had (armed), and the  *)
(* number k of $4016 reads made with the strobe off since bit 0 was last   *)
(* written as 1.                                                           *)
(***************************************************************************)

JOYPAD_1 == 16406
RamAddrs == {0, 2048, 6144, 1, 2047, 8191}
PrgAddrs == {32768, 49152, 49151, 65535}
MaxJoypadOps == 14
MaxRamOps == 4
MaxPrgOps == 3

\* a 16 KiB PRG-ROM with bytes at its two ends
PrgImage == Bytes(0, <<162, 5>>) @@ Bytes(16383, <<234>>)

IoScenarios ==
    [addrs : {{JOYPAD_1}}, values : {{0, 1}}, buttons : {{BUTTON_A, BUTTON_B, RIGHT}},
     limit : {MaxJoypadOps}]
    \cup
    [addrs : {RamAddrs}, values : {{102, 119}}, buttons : {{}}, limit : {MaxRamOps}]
    \cup
    [addrs : {PrgAddrs}, values : {{102}}, buttons : {{}}, limit : {MaxPrgOps}]

InitIo ==
    \E sc \in IoScenarios :
        /\ ppu = PPU_new([data |-> Empty, len |-> 0], "Horizontal")
        /\ bus = Bus_new(Cartridge_new_from_program(PrgImage, 16384))
        /\ cpu = NoCpu
        /\ phase = "api"
        /\ hist = [n |-> 0, call |-> NoCall, strobe |-> FALSE, armed |-> FALSE,
                   k |-> 0, addrs |-> sc.addrs, values |-> sc.values,
                   buttons |-> sc.buttons, limit |-> sc.limit]

\* the call returns, or panics and ends the run
IoDone(m, h) ==
    /\ bus' = IF m.panic THEN bus ELSE m.bus
    /\ ppu' = IF m.panic THEN ppu ELSE m.ppu
    /\ phase' = IF m.panic THEN "panic" ELSE "api"
    /\ hist' = [h EXCEPT !.n = @ + 1]
    /\ UNCHANGED cpu

IoWrite ==
    /\ phase = "api" /\ hist.n < hist.limit
    /\ \E a \in hist.addrs, v \in hist.values :
        IoDone(Bus_cpu_write(Machine, a, v),
               [hist EXCEPT !.call = [op |-> "write", at |-> a, value |-> v],
                            !.strobe = IF a = JOYPAD_1 THEN v % 2 = 1 ELSE @,
                            !.armed = @ \/ (a = JOYPAD_1 /\ v % 2 = 1),
                            !.k = IF a = JOYPAD_1 /\ v % 2 = 1 THEN 0 ELSE @])

IoRead ==
    /\ phase = "api" /\ hist.n < hist.limit
    /\ \E a \in hist.addrs : \E r \in {Bus_cpu_read(Machine, a)} :
        IoDone(r.m,
               [hist EXCEPT !.call = [op |-> "read", at |-> a, value |-> r.ret],
                            !.k = IF a = JOYPAD_1 /\ ~hist.strobe THEN @ + 1 ELSE @])

\* the game-loop callback on a key going down
IoPress ==
    /\ phase = "api"
    /\ \E b \in hist.buttons :
        /\ bus' = [bus EXCEPT !.joypads[1] = Joypad_set(@, b)]
        /\ UNCHANGED <<ppu, cpu, phase, hist>>

\* the game-loop callback on a key going up
IoRelease ==
    /\ phase = "api"
    /\ \E b \in hist.buttons :
        /\ bus' = [bus EXCEPT !.joypads[1] = Joypad_unset(@, b)]
        /\ UNCHANGED <<ppu, cpu, phase, hist>>

NextIo == IoWrite \/ IoRead \/ IoPress \/ IoRelease

SpecBusIO == InitIo /\ [][NextIo]_vars

\* the buttons in the order the joypad reports them
ButtonOrder == <<BUTTON_A, BUTTON_B, SELECT, START, UP, DOWN, LEFT, RIGHT>>

\* C16: with the strobe off, after bit 0 of $4016 was written as 1 and then
\* as 0, the reads return the state of A, B, Select, Start, Up, Down, Left
\* and Right, one button a read; the ninth read and every later one return 1,
\* until bit 0 is written as 1 again, after which the reads start at A.
C16_ButtonsInOrder ==
    [][ (Returned("read") /\ hist'.call.at = JOYPAD_1 /\ hist.armed /\ ~hist.strobe) =>
          hist'.call.value =
              IF hist.k < 8
              THEN Bit(bus.joypads[1].status, ButtonOrder[hist.k + 1])
              ELSE 1 ]_vars

\* the ninth read since the strobe returns 1 although no button is held
C16_Witness ==
    /\ hist.call = [op |-> "read", at |-> JOYPAD_1, value |-> 1]
    /\ hist.armed /\ ~hist.strobe /\ hist.k = 9
    /\ bus.joypads[1].status = 0

\* C17: while the strobe is on, every read of $4016 returns the state of
\* button A as it is then, and does not move on to another button.
C17_StrobeOnReadsA ==
    [][ (Returned("read") /\ hist'.call.at = JOYPAD_1 /\ hist.strobe) =>
          /\ hist'.call.value = Bit(bus.joypads[1].status, BUTTON_A)
          /\ bus'.joypads[1].next_btn_idx = bus.joypads[1].next_btn_idx ]_vars

\* a read under the strobe, after another, with B held and A not: 0 again
C17_Witness ==
    /\ hist.call = [op |-> "read", at |-> JOYPAD_1, value |-> 0]
    /\ hist.strobe /\ hist.n >= 3 /\ bus.joypads[1].next_btn_idx = 0
    /\ bus.joypads[1].status = 2

\* the byte a CPU read at addr returns from the bus b
BusReadBack(b, addr) == Bus_cpu_read([Machine EXCEPT !.bus = b], addr).ret

\* C18: a CPU write at an address in $8000-$FFFF leaves the PRG-ROM as it
\* was: a CPU read at any PRG address returns afterwards what it returned
\* before.
C18_PrgRomUnchanged ==
    [][ (Returned("write") /\ hist'.call.at >= 32768 /\ hist'.call.at <= 65535) =>
          \A b \in PrgAddrs \cup {32769} :
              BusReadBack(bus', b) = BusReadBack(bus, b) ]_vars

\* C20: a byte written at a CPU address in $0000-$1FFF is read back at every
\* address of $0000-$1FFF that is equal to it modulo $0800, and every other
\* RAM address reads what it read before.
C20_RamMirrors ==
    [][ (Returned("write") /\ hist'.call.at >= 0 /\ hist'.call.at <= 8191) =>
          \A b \in RamAddrs \cup {4096, 2049, 4095, 6143, 6145} :
              BusReadBack(bus', b) =
                  IF b % 2048 = hist'.call.at % 2048
                  THEN hist'.call.value
                  ELSE BusReadBack(bus, b) ]_vars

\* $77 written at $1800 is read at $0000, $0800 and $1000, and the $66
\* written at $0001 before is still read at $0001 and $0801
C20_Witness ==
    /\ hist.call = [op |-> "write", at |-> 6144, value |-> 119]
    /\ BusReadBack(bus, 0) = 119 /\ BusReadBack(bus, 2048) = 119
    /\ BusReadBack(bus, 4096) = 119 /\ BusReadBack(bus, 6144) = 119
    /\ BusReadBack(bus, 1) = 102 /\ BusReadBack(bus, 2049) = 102
    /\ BusReadBack(bus, 2047) = 0

(***************************************************************************)
(* SpecLoader: Cartridge::new on the bytes of a file.  hist.raw is the     *)
(* file, a header and the data behind it cut to some length; Load calls    *)
(* Cartridge::new and keeps what came of it in hist.result.                *)
(***************************************************************************)

MAGIC == <<78, 69, 83, 26>>

\* the magic bytes, and three sequences that differ from them in one byte
MagicValues == {MAGIC, <<78, 69, 83, 27>>, <<77, 69, 83, 26>>, <<78, 69, 0, 26>>}
BankCounts == {0, 1, 2}
\* control byte 1: nothing, vertical, trainer, four-screen, mapper 1, mapper 15
Ctrl1Values == {0, 1, 4, 8, 16, 241}
\* control byte 2: nothing, iNES 2.0 bits, mapper 16, mapper 16 and a low bit
Ctrl2Values == {0, 1, 8, 16, 17}

\* the length of a file with this header and all of its data
FullLength(prg, chr, ctrl1) ==
    16 + (IF (ctrl1 \div 4) % 2 = 1 THEN 512 ELSE 0) + prg * 16384 + chr * 8192

\* a file of the given length: the header, and a byte at each end of the
\* PRG-ROM and at the start of the CHR-ROM
RawFile(magic, prg, chr, ctrl1, ctrl2, len) ==
    LET start == FullLength(0, 0, ctrl1)
        all == Bytes(0, magic \o <<prg, chr, ctrl1, ctrl2>>)
                  @@ Bytes(start, <<162>>)
                  @@ Bytes(start + prg * 16384 - 1, <<234>>)
                  @@ Bytes(start + prg * 16384, <<60>>)
    IN  [len |-> len, data |-> [i \in {a \in DOMAIN all : a < len} |-> all[i]]]

RawFiles ==
    {RawFile(mg, prg, chr, c1, c2, len) :
        mg \in MagicValues, prg \in {1}, chr \in {1}, c1 \in Ctrl1Values,
        c2 \in Ctrl2Values, len \in {0, 3, 4, 7, 8, 15, 16}}
    \cup UNION {{RawFile(mg, prg, chr, c1, c2, FullLength(prg, chr, c1) + d) :
                    d \in {-1, 0, 1}} :
        mg \in {MAGIC, <<78, 69, 83, 27>>}, prg \in BankCounts, chr \in BankCounts,
        c1 \in Ctrl1Values, c2 \in Ctrl2Values}
    \cup {RawFile(MAGIC, 2, 1, 0, 0, 16 + 32768 + d) : d \in {0, 1, 8191}}

InitLoader ==
    \E raw \in RawFiles :
        /\ ppu = NoCpu
        /\ bus = NoBus
        /\ cpu = NoCpu
        /\ phase = "file"
        /\ hist = [raw |-> raw, result |-> [kind |-> "none"]]

Load ==
    /\ phase = "file"
    /\ \E r \in {Cartridge_new(hist.raw)} :
        /\ hist' = [hist EXCEPT !.result = r]
        /\ phase' = r.kind
        /\ UNCHANGED <<ppu, bus, cpu>>

NextLoader == Load

SpecLoader == InitLoader /\ [][NextLoader]_vars

RawByte(i) == Get(hist.raw.data, i)

MagicFound == hist.raw.len >= 4 /\ <<RawByte(0), RawByte(1), RawByte(2), RawByte(3)>> = MAGIC

\* the mapper id: the high four bits of byte 7 over the high four of byte 6
MapperId == (RawByte(7) \div 16) * 16 + (RawByte(6) \div 16)

\* C21: once Cartridge::new has been called, the result is an error when the
\* first four bytes are not 4E 45 53 1A, when the mapper id of bytes 6 and 7
\* is not 0, and when the low four bits of byte 7 are not 0; it is a
\* cartridge only when none of the three is so.
C21_HeaderChecks ==
    phase # "file" =>
        /\ (hist.raw.len >= 4 /\ ~MagicFound) => hist.result.kind = "err"
        /\ (hist.raw.len >= 8 /\ MapperId # 0) => hist.result.kind = "err"
        /\ (hist.raw.len >= 8 /\ RawByte(7) % 16 # 0) => hist.result.kind = "err"
        /\ hist.result.kind = "ok" =>
              MagicFound /\ MapperId = 0 /\ RawByte(7) % 16 = 0

\* a whole file of mapper 0 whose byte 7 has a low bit set was refused
C21_Witness ==
    /\ phase = "err" /\ MagicFound /\ MapperId = 0 /\ RawByte(7) = 1
    /\ hist.raw.len = FullLength(RawByte(4), RawByte(5), RawByte(6))

\* C22: once Cartridge::new has been called on a file shorter than the 16
\* bytes of the header, or shorter than the header, the trainer and the PRG
\* and CHR sizes of bytes 4 and 5, the result is an error.
C22_ShortFileIsError ==
    (phase # "file"
        /\ (hist.raw.len < 16
              \/ hist.raw.len < FullLength(RawByte(4), RawByte(5), RawByte(6)))) =>
        hist.result.kind = "err"

(***************************************************************************)
(* SpecInst: single instructions.  A run starts at an instruction          *)
(* boundary, with the registers, the RAM and the code at the program       *)
(* counter drawn from the cases below (any of them is left behind by some  *)
(* program: LDA, LDX, TXS, PLP and STA set them), and makes CPU ticks      *)
(* until hist.limit instructions have begun.  The PPU stands still: its    *)
(* only part is the NMI it has raised in the cases that say so.  hist      *)
(* keeps the number n of instructions begun, what the last tick began (an  *)
(* opcode, "NMI", or "wait" for a tick inside an instruction), the CPU     *)
(* before the last instruction or NMI service begun (prev) and what that   *)
(* was (inst).                                                             *)
(***************************************************************************)

\* a 16 KiB PRG image: the code at the address `at`, an RTS at $9000 and an
\* RTI at $9010, and the vectors: NMI $9010, reset $8000, IRQ/BRK $9010
RomAt(at, code) ==
    Bytes(at - 32768, code) @@ Bytes(4096, <<96>>) @@ Bytes(4112, <<64>>)
        @@ Bytes(16378, <<16, 144, 0, 128, 16, 144>>)

Regs(sp, acc, status) ==
    [sp |-> sp, acc |-> acc, status |-> status, x |-> 0, y |-> 0, nmi |-> FALSE,
     vaddr |-> 0]

\* the index registers set, the others at rest
RegsXY(x, y) == [Regs(253, 165, 32) EXCEPT !.x = x, !.y = y]

InstCase(at, code, ram, regs, limit) ==
    [at |-> at, rom |-> RomAt(at, code), ram |-> ram, regs |-> regs, limit |-> limit]

\* bytes on the stack page, at its two ends
StackRam == Bytes(256, <<17, 34, 51, 68>>) @@ Bytes(508, <<85, 102, 119, 136>>)

StackPointers == {0, 1, 2, 3, 252, 253, 254, 255}

\* PHA, PHP, JSR $9000, BRK, PLA, PLP, RTS, RTI
StackCode == {<<72>>, <<8>>, <<32, 0, 144>>, <<0>>, <<104>>, <<40>>, <<96>>, <<64>>}

\* the machine of a case: registers as given, the program in PRG ROM
Start(c) ==
    /\ cpu = [CPU_new EXCEPT !.pc = c.at, !.sp = c.regs.sp, !.acc = c.regs.acc,
                             !.status = c.regs.status,
                             !.reg_x = c.regs.x, !.reg_y = c.regs.y]
    /\ bus = [Bus_new(Cartridge_new_from_program(c.rom, 16384)) EXCEPT
                 !.cpu_ram = c.ram]
    /\ ppu = [PPU_new([data |-> Empty, len |-> 0], "Horizontal") EXCEPT
                 !.nmi = c.regs.nmi,
                 !.addr_reg = AddrRegister_set(@, c.regs.vaddr)]
    /\ phase = "run"
    /\ hist = [n |-> 0, limit |-> c.limit, op |-> "none",
               prev |-> NoCpu, inst |-> "none"]

\* each stack instruction, and a NOP with an NMI pending, under each stack
\* pointer
StackCases ==
    \/ \E code \in StackCode, sp \in StackPointers :
        Start(InstCase(32768, code, StackRam, Regs(sp, 165, 33), 1))
    \/ \E sp \in StackPointers :
        Start(InstCase(32768, <<234>>, StackRam, [Regs(sp, 165, 33) EXCEPT !.nmi = TRUE], 1))

\* JSR $9000, where an RTS is, from four places: the return address p+2 is
\* $8002, $8012, $80FF or $8100
JsrCases ==
    \/ \E at \in {32768, 32784, 33021, 33022}, sp \in {0, 1, 253, 255} :
        Start(InstCase(at, <<32, 0, 144>>, StackRam, Regs(sp, 165, 33), 2))

\* the status bytes of an instruction boundary: Unused set, Break clear
StatusValues == {32 + c + 2 * z + 4 * i + 8 * d + 64 * v + 128 * n :
                    c \in {0, 1}, z \in {0, 1}, i \in {0, 1}, d \in {0, 1},
                    v \in {0, 1}, n \in {0, 1}}

\* PHP and BRK under every status; PLP and RTI pulling every byte
StatusCases ==
    \/ \E code \in {<<8>>, <<0>>}, st \in StatusValues :
        Start(InstCase(32768, code, StackRam, Regs(253, 165, st), 1))
    \/ \E code \in {<<40>>, <<64>>}, v \in 0..255, st \in {32, 239} :
        Start(InstCase(32768, code, Bytes(510, <<v, 16, 144>>), Regs(253, 165, st), 1))

\* operands around the sign and carry boundaries
ArithOperands == {0, 1, 2, 63, 64, 126, 127, 128, 129, 191, 192, 254, 255}

\* carry clear and set; with Decimal; with Z, V and N set beforehand
ArithStatus == {32, 33, 40, 41, 226, 227}

\* ADC #M and SBC #M under every accumulator
ArithCases ==
    \/ \E opcode \in {105, 233}, M \in ArithOperands, A \in 0..255, st \in ArithStatus :
        Start(InstCase(32768, <<opcode, M>>, Empty, Regs(253, A, st), 1))

\* ASL, ROL, LSR, ROR on the accumulator
ShiftAccOpcodes == {10, 42, 74, 106}

\* ASL, ROL, LSR, ROR on a zero-page byte
ShiftMemOpcodes == {6, 38, 70, 102}

\* carry clear and set, the other flags clear or set beforehand
ShiftStatus == {32, 33, 226, 227}

\* the four shifts on every accumulator and on every byte at $10
ShiftCases ==
    \/ \E opcode \in ShiftAccOpcodes, v \in 0..255, st \in ShiftStatus :
        Start(InstCase(32768, <<opcode>>, Bytes(16, <<90>>), Regs(253, v, st), 1))
    \/ \E opcode \in ShiftMemOpcodes, v \in 0..255, st \in ShiftStatus :
        Start(InstCase(32768, <<opcode, 16>>, Bytes(16, <<v>>), Regs(253, 165, st), 1))

\* BPL, BMI, BVC, BVS, BCC, BCS, BNE, BEQ
BranchOpcodes == {16, 48, 80, 112, 144, 176, 208, 240}

\* where the branch is: the instruction behind it is at $8082, $80F2,
\* $80FF or $8100
BranchPlaces == {32896, 33008, 33021, 33022}

\* the offset byte: forwards and backwards, short and longest
BranchOffsets == {0, 1, 15, 16, 127, 128, 240, 254, 255}

\* no flag set, all set, only C, Z, V or N set, all but one of them set
BranchStatus == {32, 239, 33, 34, 96, 160, 238, 237, 175, 111}

\* every branch at every place, followed by whatever is at its target
BranchCases ==
    \/ \E opcode \in BranchOpcodes, at \in BranchPlaces, off \in BranchOffsets,
          st \in BranchStatus :
        Start(InstCase(at, <<opcode, off>>, Empty, Regs(253, 165, st), 2))

\* RAM with a byte of its own at each end of the pages 0, 2 and 7
JmpRam ==
    Bytes(0, <<17>>) @@ Bytes(255, <<34, 51>>) @@ Bytes(512, <<68, 85>>)
        @@ Bytes(766, <<102, 119, 136>>) @@ Bytes(1792, <<153>>) @@ Bytes(2047, <<170>>)

\* the pointers of JMP (ind): $0000, $00FF, $0200, $02FE, $02FF, $07FF in
\* RAM, $0AFF and $1FFF in its mirrors, $FFFA, $FFFE and $FFFF in PRG ROM
JmpPointers == {0, 255, 512, 766, 767, 2047, 2815, 8191, 65530, 65534, 65535}

\* JMP (pointer) from two places
JmpCases ==
    \/ \E ptr \in JmpPointers, at \in {32768, 33021}, st \in {32, 239} :
        Start(InstCase(at, <<108, ptr % 256, ptr \div 256>>, JmpRam, Regs(253, 165, st), 1))

\* RAM for the pointer modes: every zero-page byte is in 1..7, so every
\* pointer read there lies in RAM with low and high byte in 1..7; each such
\* address holds a byte of its own; $0100, where no pointer byte may come
\* from, holds 6
PtrRam ==
    [a \in 0..255 |-> 1 + (a % 7)] @@ [a \in {256} |-> 6]
        @@ [a \in {256 * h + l : h \in 1..7, l \in 1..7} |-> 16 * (a \div 256) + (a % 256)]

\* LDA (zp,X) and STA (zp,X) with the index (operand + X) mod 256 taking
\* every value
IndexedIndirectCases ==
    \/ \E opcode \in {161, 129}, zp \in {0, 1, 128, 254, 255}, x \in 0..255 :
        Start(InstCase(32768, <<opcode, zp>>, PtrRam, RegsXY(x, 0), 1))

\* LDA (zp),Y with every operand, and Y keeping the sum on the page of the
\* pointer or carrying it to the next
IndirectIndexedCases ==
    \/ \E zp \in 0..255, y \in {0, 1, 248, 249, 250, 252, 254, 255} :
        Start(InstCase(32768, <<177, zp>>, PtrRam, RegsXY(0, y), 1))

\* the zero-page forms of SLO, RLA, SRE, RRA, SAX, LAX, DCP, ISB
CombinedOpcodes == {7, 39, 71, 103, 135, 167, 199, 231}

\* each of them on a byte at $10, with A and X apart and carry either way
CombinedCases ==
    \/ \E opcode \in CombinedOpcodes, v \in {0, 1, 127, 128, 255}, st \in {32, 33} :
        Start(InstCase(32768, <<opcode, 16>>, Bytes(16, <<v>>),
                       [Regs(253, 165, st) EXCEPT !.x = 60], 1))

\* STA, STX, STY absolute
StoreOpcodes == {141, 142, 140}

\* a store to $2007 with the VRAM address in a nametable or the palette,
\* to $4016 with the strobe bit of the value clear or set, and to RAM
StoreCases ==
    \/ \E opcode \in StoreOpcodes, vaddr \in {8192, 9215, 10240, 16128, 16159} :
        Start(InstCase(32768, <<opcode, 7, 32>>, Empty,
                       [RegsXY(60, 90) EXCEPT !.vaddr = vaddr], 1))
    \/ \E opcode \in StoreOpcodes, v \in {0, 1, 2, 255}, to \in {16406, 768} :
        Start(InstCase(32768, <<opcode, to % 256, to \div 256>>, Empty,
                       [Regs(253, v, 32) EXCEPT !.x = v, !.y = v], 1))

\* every opcode byte of the table once, with the operand bytes $10 $02, no
\* flag or every flag set, and bytes with bit 4 set on the stack
TableCases ==
    \/ \E opcode \in DOMAIN SPEC_TABLE, st \in {32, 239} :
        Start(InstCase(32768, <<opcode, 16, 2>>, StackRam, Regs(253, 165, st), 1))

InitInst ==
    \/ StackCases \/ JsrCases \/ StatusCases \/ ArithCases
    \/ ShiftCases \/ BranchCases \/ JmpCases \/ IndexedIndirectCases
    \/ IndirectIndexedCases \/ CombinedCases \/ StoreCases \/ TableCases

\* what the builds make of the tick: a panic ends the run; where an
\* unchecked subtraction or addition overflowed, a build with overflow
\* checks panics and one without goes on with the wrapped value
Outcomes(m) ==
    CASE m.panic -> {"panic"}
      [] ~m.panic /\ m.overflow -> {"panic", "run"}
      [] OTHER -> {"run"}

\* one turn of the loop of run_with_callback without bus.cpu_tick()
InstTick ==
    /\ phase = "run"
    /\ hist.n < hist.limit
    /\ \E m \in {run_iteration(Machine)} : \E o \in Outcomes(m) :
       \E op \in {CASE Bus_has_nmi(Machine) -> "NMI"
                    [] ~Bus_has_nmi(Machine) /\ cpu.cycles = 0 -> NextOpcode
                    [] OTHER -> "wait"} :
        /\ phase' = o
        /\ cpu' = IF o = "run" THEN m.cpu ELSE cpu
        /\ bus' = IF o = "run" THEN m.bus ELSE bus
        /\ ppu' = IF o = "run" THEN m.ppu ELSE ppu
        /\ hist' = IF op = "wait" THEN [hist EXCEPT !.op = op]
                   ELSE [hist EXCEPT !.n = @ + 1, !.op = op,
                                     !.prev = cpu, !.inst = op]

NextInst == InstTick

SpecInst == InitInst /\ [][NextInst]_vars

\* the tick begins one of the instructions ops (or the NMI service)
Begins(ops) == hist'.n = hist.n + 1 /\ hist'.op \in ops

\* the address on the stack page k places below (k > 0) or above the one
\* the stack pointer names
StackAt(k) == 256 + ((cpu.sp + 256 - k) % 256)

Ram(b, addr) == Get(b.cpu_ram, addr)

\* the RAM differs between b and c at the addresses of set at most
RamSameBut(b, c, set) ==
    \A a \in (DOMAIN b.cpu_ram \cup DOMAIN c.cpu_ram) \ set : Ram(b, a) = Ram(c, a)

PushCount(op) ==
    CASE op \in {"PHA", "PHP"} -> 1 [] op = "JSR" -> 2 [] OTHER -> 3

PopCount(op) ==
    CASE op \in {"PLA", "PLP"} -> 1 [] op = "RTS" -> 2 [] OTHER -> 3

\* C23: PHA, PHP, JSR, BRK and the NMI service write at $0100+SP and below,
\* one byte for each decrement of SP modulo 256, and nowhere else; PLA, PLP,
\* RTS and RTI increment SP modulo 256, once for each byte they read, and
\* write nothing; none of them fails, whatever SP is.
C23_StackInPage ==
    [][ /\ Begins({"PHA", "PHP", "JSR", "BRK", "NMI"}) =>
            /\ phase' = "run"
            /\ cpu'.sp = (cpu.sp + 256 - PushCount(hist'.op)) % 256
            /\ RamSameBut(bus, bus', {StackAt(k) : k \in 0..(PushCount(hist'.op) - 1)})
            /\ hist'.op = "PHA" => Ram(bus', StackAt(0)) = cpu.acc
        /\ Begins({"PLA", "PLP", "RTS", "RTI"}) =>
            /\ phase' = "run"
            /\ cpu'.sp = (cpu.sp + PopCount(hist'.op)) % 256
            /\ bus'.cpu_ram = bus.cpu_ram
            /\ hist'.op = "PLA" => cpu'.acc = Ram(bus, StackAt(-1)) ]_vars

\* C24: a JSR at p pushes the high byte and then the low byte of p+2 and
\* sets PC to its target; the RTS that follows it sets PC to p+3 and leaves
\* SP as it was before the JSR.
C24_JsrRts ==
    [][ /\ Begins({"JSR"}) =>
            /\ phase' = "run"
            /\ Ram(bus', StackAt(0)) = ((cpu.pc + 2) % 65536) \div 256
            /\ Ram(bus', StackAt(1)) = (cpu.pc + 2) % 256
            /\ cpu'.pc = BusReadBack(bus, cpu.pc + 1) + 256 * BusReadBack(bus, cpu.pc + 2)
        /\ (Begins({"RTS"}) /\ hist.inst = "JSR") =>
            /\ phase' = "run"
            /\ cpu'.pc = (hist.prev.pc + 3) % 65536
            /\ cpu'.sp = hist.prev.sp ]_vars

\* C25: the status byte PHP and BRK write to the stack has bit 4 (Break)
\* set (and bit 5, over the flags as they are, BRK having set I); after PLP
\* and RTI the status register has Break clear (and Unused set, over the
\* other bits of the byte pulled), whatever that byte is.
C25_BreakBit ==
    [][ /\ (Begins({"PHP"}) /\ phase' = "run") =>
            /\ Bit(Ram(bus', StackAt(0)), 4) = 1
            /\ Ram(bus', StackAt(0)) = BitOr(cpu.status, 48)
        /\ (Begins({"BRK"}) /\ phase' = "run") =>
            /\ Bit(Ram(bus', StackAt(2)), 4) = 1
            /\ Ram(bus', StackAt(2)) = BitOr(cpu.status, 52)
        /\ (Begins({"PLP", "RTI"}) /\ phase' = "run") =>
            /\ Bit(cpu'.status, 4) = 0
            /\ cpu'.status = BitOr(BitAnd(Ram(bus, StackAt(-1)), 239), 32) ]_vars

\* PLP has pulled $FF: the status is $EF
C25_Witness ==
    /\ hist.inst = "PLP" /\ phase = "run" /\ hist.prev.status = 32
    /\ Ram(bus, 256 + cpu.sp) = 255 /\ cpu.status = 239

\* the flag of the status byte as a truth value
Flag(c, bit) == Bit(c.status, bit) = 1

\* the operand byte of the two-byte instruction about to execute
Operand == BusReadBack(bus, cpu.pc + 1)

\* the address the instruction about to execute works on, and the byte there
Target == fetch_next_instruction(Machine).inst.oprand_addr

TargetByte == BusReadBack(bus, Target)

\* C26: for every A, M and carry-in c, ADC leaves A = (A+M+c) mod 256,
\* C = (A+M+c > 255), Z = (new A = 0), N = bit 7 of the new A and V = 1
\* exactly when A and M have the same sign bit and the result's differs; the
\* Decimal flag changes nothing of this and is left as it was.
C26_Adc ==
    [][ Begins({"ADC"}) =>
          LET sum == cpu.acc + TargetByte + Bit(cpu.status, C)
          IN  /\ phase' = "run"
              /\ cpu'.acc = sum % 256
              /\ Flag(cpu', C) = (sum > 255)
              /\ Flag(cpu', Z) = (cpu'.acc = 0)
              /\ Flag(cpu', N) = (Bit(cpu'.acc, 7) = 1)
              /\ Flag(cpu', V) = (/\ Bit(cpu.acc, 7) = Bit(TargetByte, 7)
                                  /\ Bit(cpu'.acc, 7) # Bit(cpu.acc, 7))
              /\ Flag(cpu', D) = Flag(cpu, D) ]_vars

\* $7F + $01 with carry clear and Decimal set: $80 with V and N set
C26_Witness ==
    /\ hist.inst = "ADC" /\ phase = "run"
    /\ hist.prev.acc = 127 /\ hist.prev.status = 40
    /\ BusReadBack(bus, hist.prev.pc + 1) = 1
    /\ cpu.acc = 128 /\ Flag(cpu, V) /\ Flag(cpu, N) /\ ~Flag(cpu, C) /\ ~Flag(cpu, Z)

\* C27: SBC with operand M leaves the accumulator and the flags C, Z, V and
\* N that ADC leaves with operand M XOR $FF, from the same registers.
C27_SbcIsAdcOfComplement ==
    [][ Begins({"SBC"}) =>
          \E a \in {exec_ADC(Machine, BitXor(TargetByte, 255))} :
              /\ phase' = "run"
              /\ cpu'.acc = a.cpu.acc
              /\ \A f \in {C, Z, V, N} : Flag(cpu', f) = Flag(a.cpu, f) ]_vars

\* $40 - $C0 with carry set: $80, a borrow and a signed overflow
C27_Witness ==
    /\ hist.inst = "SBC" /\ phase = "run"
    /\ hist.prev.acc = 64 /\ hist.prev.status = 33
    /\ BusReadBack(bus, hist.prev.pc + 1) = 192
    /\ cpu.acc = 128 /\ Flag(cpu, V) /\ Flag(cpu, N) /\ ~Flag(cpu, C)

\* the opcode byte of the instruction about to execute
Opcode == BusReadBack(bus, cpu.pc)

\* C28: ASL, LSR, ROL and ROR, on the accumulator or on a memory byte: the
\* carry afterwards is the bit shifted out (bit 7 for ASL and ROL, bit 0
\* for LSR and ROR), ROL puts the old carry in bit 0 and ROR in bit 7, ASL
\* and LSR shift in 0, Z and N come from the 8-bit result, and the result
\* goes where the operand came from.
C28_Shifts ==
    [][ Begins({"ASL", "LSR", "ROL", "ROR"}) =>
          LET onAcc == SPEC_TABLE[Opcode].addr_mode = "Implicit"
              old == IF onAcc THEN cpu.acc ELSE Ram(bus, Target)
              new == IF onAcc THEN cpu'.acc ELSE Ram(bus', Target)
              cin == Bit(cpu.status, C)
              left == hist'.op \in {"ASL", "ROL"}
              fill == IF hist'.op \in {"ROL", "ROR"} THEN cin ELSE 0
          IN  /\ phase' = "run"
              /\ new = IF left THEN ((old * 2) % 256) + fill
                               ELSE (old \div 2) + 128 * fill
              /\ Bit(cpu'.status, C) = IF left THEN Bit(old, 7) ELSE Bit(old, 0)
              /\ Flag(cpu', Z) = (new = 0)
              /\ Flag(cpu', N) = (Bit(new, 7) = 1)
              /\ IF onAcc THEN bus'.cpu_ram = bus.cpu_ram
                          ELSE cpu'.acc = cpu.acc /\ RamSameBut(bus', bus, {Target}) ]_vars

\* LSR A with A = $01: A = 0, C = 1, Z = 1, N = 0
C28_Witness ==
    /\ hist.inst = "LSR" /\ phase = "run"
    /\ hist.prev.acc = 1 /\ hist.prev.status = 226
    /\ BusReadBack(bus, hist.prev.pc) = 74
    /\ cpu.acc = 0 /\ Flag(cpu, C) /\ Flag(cpu, Z) /\ ~Flag(cpu, N)

BranchNames == {"BPL", "BMI", "BVC", "BVS", "BCC", "BCS", "BNE", "BEQ"}

\* the flag a branch tests and the value it branches on
BranchFlag(op) ==
    CASE op \in {"BPL", "BMI"} -> N
      [] op \in {"BVC", "BVS"} -> V
      [] op \in {"BCC", "BCS"} -> C
      [] op \in {"BNE", "BEQ"} -> Z

BranchOn(op) == IF op \in {"BMI", "BVS", "BCS", "BEQ"} THEN 1 ELSE 0

\* the branch op at the registers c: taken or not, its target, its cost
BranchTaken(c, op) == Bit(c.status, BranchFlag(op)) = BranchOn(op)

BranchTarget(c) ==
    LET off == BusReadBack(bus, c.pc + 1)
    IN  (c.pc + 2 + (IF off < 128 THEN off ELSE off - 256)) % 65536

BranchCost(c, op) ==
    CASE ~BranchTaken(c, op) -> 2
      [] BranchTaken(c, op) /\ Page(BranchTarget(c)) = Page(c.pc + 2) -> 3
      [] OTHER -> 4

\* C29: a branch is taken exactly when its flag has the value it tests; it
\* takes 2 cycles when not taken, 3 when taken to a target on the page of
\* the instruction behind it and 4 when taken to another page: the cycle
\* count it sets, and the ticks that pass until the next instruction begins.
C29_BranchCycles ==
    [][ /\ Begins(BranchNames) =>
            /\ phase' = "run"
            /\ cpu'.pc = IF BranchTaken(cpu, hist'.op) THEN BranchTarget(cpu)
                                                      ELSE cpu.pc + 2
            /\ cpu'.cycles + 1 = BranchCost(cpu, hist'.op)
        /\ (hist'.n = hist.n + 1 /\ hist.inst \in BranchNames) =>
            cpu.total_cycles - hist.prev.total_cycles = BranchCost(hist.prev, hist.inst)
      ]_vars

\* BNE at $80FD with offset +1 and Z clear: taken from $80FF to $8100, and
\* the next instruction begins 4 ticks later
C29_Witness ==
    /\ hist.n = 2 /\ hist.prev.pc = 33024 /\ hist.prev.total_cycles = 4
    /\ BusReadBack(bus, 33021) = 208 /\ BusReadBack(bus, 33022) = 1

\* the pointer of the JMP (ind) about to execute
Pointer == BusReadBack(bus, cpu.pc + 1) + 256 * BusReadBack(bus, cpu.pc + 2)

\* C30: JMP (ptr) takes the low byte of its target from ptr; the high byte
\* comes from ptr + 1, except when the low byte of ptr is $FF: then it comes
\* from the first byte of the page of ptr.
C30_JmpIndirect ==
    [][ (Begins({"JMP"}) /\ Opcode = 108) =>
          LET high == IF Pointer % 256 = 255 THEN Pointer - 255 ELSE Pointer + 1
          IN  /\ phase' = "run"
              /\ cpu'.pc = BusReadBack(bus, Pointer) + 256 * BusReadBack(bus, high)
      ]_vars

\* the 16-bit value whose low byte is RAM[zp] and whose high byte is
\* RAM[(zp + 1) mod 256]
ZpPointer(zp) == Ram(bus, zp) + 256 * Ram(bus, (zp + 1) % 256)

\* C31: in (zp,X) addressing the pointer is read from zero page at
\* (operand + X) mod 256, the high byte from the next zero-page address,
\* which is $0000 when the index is $FF: LDA loads from the address so
\* formed and STA stores there and nowhere else.
C31_IndexedIndirect ==
    [][ (Begins({"LDA", "STA"}) /\ Opcode \in {161, 129}) =>
          LET target == ZpPointer((Operand + cpu.reg_x) % 256)
          IN  /\ phase' = "run"
              /\ Opcode = 161 =>
                    cpu'.acc = Ram(bus, target) /\ bus'.cpu_ram = bus.cpu_ram
              /\ Opcode = 129 =>
                    Ram(bus', target) = cpu.acc /\ RamSameBut(bus', bus, {target})
      ]_vars

\* STA ($FE,X) with X = 1: the pointer is $04 from $00FF and $01 from
\* $0000, and the store went to $0104, not to $0604
C31_Witness ==
    /\ hist.inst = "STA" /\ phase = "run" /\ hist.prev.reg_x = 1
    /\ BusReadBack(bus, hist.prev.pc) = 129 /\ BusReadBack(bus, hist.prev.pc + 1) = 254
    /\ Ram(bus, 255) = 4 /\ Ram(bus, 0) = 1 /\ Ram(bus, 256) = 6
    /\ Ram(bus, 260) = 165 /\ Ram(bus, 1540) = 100

\* C36: LDA (zp),Y, for every operand, $FF included: the effective address
\* is pointer + Y, with the pointer's low byte from the operand's address
\* and its high byte from (operand + 1) mod 256, and the instruction takes
\* its 5 cycles and one more exactly when pointer + Y is on another page
\* than that same pointer.
C36_IndirectIndexedPageCross ==
    [][ (Begins({"LDA"}) /\ Opcode = 177) =>
          LET pointer == ZpPointer(Operand)
              addr == (pointer + cpu.reg_y) % 65536
          IN  /\ phase' = "run"
              /\ cpu'.acc = BusReadBack(bus, addr)
              /\ cpu'.cycles + 1 = 5 + (IF Page(addr) # Page(pointer) THEN 1 ELSE 0)
      ]_vars

\* the two official operations a combined opcode stands for, made one after
\* the other on the byte at addr
Components(opcode, m, addr) ==
    LET old == Get(m.bus.cpu_ram, addr)
        after(m1) == Get(m1.bus.cpu_ram, addr)
    IN  CASE opcode = 167 -> load(load(m, "acc", old), "reg_x", old)
          [] opcode = 135 -> CPU_write(m, addr, BitAnd(m.cpu.acc, m.cpu.reg_x))
          [] opcode = 199 ->
              exec_compare(update_status_Z_N(CPU_write(m, addr, (old + 255) % 256),
                                             (old + 255) % 256),
                           m.cpu.acc, (old + 255) % 256)
          [] opcode = 231 ->
              exec_SBC(update_status_Z_N(CPU_write(m, addr, (old + 1) % 256),
                                         (old + 1) % 256),
                       (old + 1) % 256)
          [] opcode = 7 ->
              Bind([m1 \in {exec_ASL(m, "ZeroPage", addr)} |->
                  load(m1, "acc", BitOr(m1.cpu.acc, after(m1)))])
          [] opcode = 39 ->
              Bind([m1 \in {exec_ROL(m, "ZeroPage", addr)} |->
                  load(m1, "acc", BitAnd(m1.cpu.acc, after(m1)))])
          [] opcode = 71 ->
              Bind([m1 \in {exec_LSR(m, "ZeroPage", addr)} |->
                  load(m1, "acc", BitXor(m1.cpu.acc, after(m1)))])
          [] OTHER ->
              Bind([m1 \in {exec_ROR(m, "ZeroPage", addr)} |->
                  exec_ADC(m1, after(m1))])

\* C32: a combined opcode is executed, and leaves the accumulator, X, the
\* memory operand and the flags C, Z, V and N as its two official
\* operations made in sequence on the same operand leave them (SAX: the
\* byte A AND X stored, no flag changed).
C32_CombinedOpcodes ==
    [][ (hist'.n = hist.n + 1 /\ Opcode \in CombinedOpcodes) =>
          \E e \in {Components(Opcode, Machine, Operand)} :
              /\ phase' = "run"
              /\ cpu'.acc = e.cpu.acc /\ cpu'.reg_x = e.cpu.reg_x
              /\ Ram(bus', Operand) = Ram(e.bus, Operand)
              /\ \A f \in {C, Z, V, N} : Flag(cpu', f) = Flag(e.cpu, f)
      ]_vars

\* the 16-bit operand of the three-byte instruction about to execute
Operand16 == Operand + 256 * BusReadBack(bus, cpu.pc + 2)

\* C34: a store makes its one write and no read of its target: after STA,
\* STX or STY at $2007 the VRAM address is one increment further, and after
\* one at $4016 that leaves the strobe off the joypad's read index is where
\* it was.
C34_StoreDoesNotRead ==
    [][ Begins({"STA", "STX", "STY"}) =>
          /\ phase' = "run"
          /\ Operand16 = 8199 =>
                AddrRegister_get(ppu'.addr_reg) =
                    (AddrRegister_get(ppu.addr_reg) + get_vram_addr_inc(ppu.ctrl_reg)) % 65536
          /\ (Operand16 = JOYPAD_1 /\ ~bus'.joypads[1].strobe) =>
                bus'.joypads[1].next_btn_idx = bus.joypads[1].next_btn_idx
      ]_vars

\* C39: bit 4 (Break) of the status register is 0 before and after every
\* instruction and NMI service, whatever the instruction and whatever byte
\* PLP or RTI pulls.
C39_BreakClearInRegister == Bit(cpu.status, B) = 0

\* BRK has pushed a status byte with bit 4 set and left the register
\* without it
C39_Witness ==
    /\ hist.inst = "BRK" /\ phase = "run" /\ hist.prev.sp = 253
    /\ Bit(Ram(bus, 507), 4) = 1 /\ Ram(bus, 507) = BitOr(hist.prev.status, 52)
    /\ cpu.status = BitOr(hist.prev.status, 4) /\ cpu.pc = 36880

\* C40: in every state the calls of write, read, set and unset lead to, the
\* read index of a joypad is in 0..8, and it is 0 whenever the strobe is on.
C40_JoypadIndex ==
    \A i \in 1..2 :
        /\ bus.joypads[i].next_btn_idx \in 0..8
        /\ bus.joypads[i].strobe => bus.joypads[i].next_btn_idx = 0

\* a ninth read with the strobe off and no button down: it returned 1 and
\* the index stays at 8
C40_Witness ==
    /\ hist.call.op = "read" /\ hist.call.at = JOYPAD_1 /\ hist.call.value = 1
    /\ hist.k >= 9 /\ bus.joypads[1].status = 0
    /\ ~bus.joypads[1].strobe /\ bus.joypads[1].next_btn_idx = 8

\* C37: for each mirroring mode and each nametable address a $2007 read or
\* write is made at, the index get_mirrored_vram_addr computes is below the
\* 2048 bytes of the VRAM array, and the access does not fail.
C37_VramIndexInRange ==
    (hist.call.op \in {"read", "write"} /\ IsNametable(hist.call.at)) =>
        /\ get_mirrored_vram_addr(ppu.mirror, hist.call.at % 16384) < VRAM_SIZE
        /\ phase # "panic"

(***************************************************************************)
(* SpecOam: the OAM port.  Writes of the OAM address register and of the   *)
(* OAM data register, in any order, on a new PPU.  hist keeps the number   *)
(* of calls and the last call.                                             *)
(***************************************************************************)

MaxOamOps == 5

OamAddrValues == {0, 1, 254, 255}

OamDataValues == {17, 34}

InitOam ==
    /\ ppu = PPU_new([data |-> Empty, len |-> 0], "Horizontal")
    /\ bus = NoBus
    /\ cpu = NoCpu
    /\ phase = "run"
    /\ hist = [n |-> 0, call |-> NoCall]

OamWriteAddr ==
    /\ phase = "run" /\ hist.n < MaxOamOps
    /\ \E v \in OamAddrValues :
        /\ ppu' = PPU_write_oam_addr(ppu, v)
        /\ hist' = [n |-> hist.n + 1, call |-> [op |-> "oam_addr", at |-> 0, value |-> v]]
    /\ UNCHANGED <<bus, cpu, phase>>

\* the write returns, or the process aborts
OamWriteData ==
    /\ phase = "run" /\ hist.n < MaxOamOps
    /\ \E v \in OamDataValues : \E m \in {PPU_write_oam_data(Machine, v)} :
       \E o \in Outcomes(m) :
        /\ phase' = o
        /\ ppu' = IF o = "run" THEN m.ppu ELSE ppu
        /\ hist' = [n |-> hist.n + 1,
                    call |-> [op |-> "oam_data", at |-> ppu.oam_addr, value |-> v]]
    /\ UNCHANGED <<bus, cpu>>

NextOam == OamWriteAddr \/ OamWriteData

SpecOam == InitOam /\ [][NextOam]_vars

\* C38: a write of the OAM data register stores the byte at the OAM
\* address and leaves the address one further modulo 256, from $FF at $00;
\* it does not fail, and the OAM address is in 0..255 after every write.
C38_OamAddrWraps ==
    [][ /\ ppu'.oam_addr \in 0..255
        /\ hist'.call.op = "oam_data" =>
            /\ phase' = "run"
            /\ Get(ppu'.oam_data, ppu.oam_addr) = hist'.call.value
            /\ ppu'.oam_addr = (ppu.oam_addr + 1) % 256
            /\ \A i \in 0..255 \ {ppu.oam_addr} :
                  Get(ppu'.oam_data, i) = Get(ppu.oam_data, i) ]_vars



----------------------------------------------------------------------------
(* SpecSprite: the sprite-zero-hit flag around sprite 0's scanline.  A run  *)
(* starts at the first dot of the scanline above sprite 0, in the state the *)
(* new PPU has after being ticked that far with rendering off (the vblank   *)
(* flag is up once scanline 241 has been entered); the PPU is then ticked   *)
(* and the mask register written, in any order.  hist counts the ticks.     *)

\* enough ticks to go from scanline 249 through the end of the frame
MaxSpriteTicks == 4440

\* mask values: rendering off, background only, sprites only, both
SpriteMasks == {0, 8, 16, 24}

\* sprite 0 as <<Y, X>>: on the last visible line, on the post-render line
\* and inside vblank
SpritePlaces == {<<239, 255>>, <<240, 7>>, <<250, 0>>}

InitSprite ==
    \E s \in SpritePlaces :
        /\ ppu = [PPU_new([data |-> Empty, len |-> 0], "Horizontal") EXCEPT
                    !.oam_data = Put(Put(@, 0, s[1]), 3, s[2]),
                    !.scanlines = s[1] - 1,
                    !.status_reg = set_vblank_started(@, s[1] - 1 >= VBLANK_SCANLINE)]
        /\ bus = NoBus
        /\ cpu = NoCpu
        /\ phase = "api"
        /\ hist = [n |-> 0]

SpriteTick ==
    /\ hist.n < MaxSpriteTicks
    /\ ppu' = PPU_tick(ppu)
    /\ hist' = [n |-> hist.n + 1]
    /\ UNCHANGED <<bus, cpu, phase>>

SpriteWriteMask ==
    \E v \in SpriteMasks :
        /\ ppu' = PPU_write_mask_reg(ppu, v)
        /\ UNCHANGED <<bus, cpu, phase, hist>>

NextSprite == SpriteTick \/ SpriteWriteMask

SpecSprite == InitSprite /\ [][NextSprite]_vars

ZeroHit(p) == Bit(p.status_reg, SPRITE_ZERO_HIT) = 1

\* the tick that ends the scanline the PPU is on
EndsLine == Ticked /\ ppu'.scanlines # ppu.scanlines

----------------------------------------------------------------------------
(* SpecDma: OAM DMA as the bus runs it.  The CPU and the bus take turns as  *)
(* in the run loop: on its turn the CPU either writes a page to $4014 or    *)
(* does something else, and then the bus is ticked until system_tick lets   *)
(* the CPU tick again.  A run starts from a new bus, or from one whose      *)
(* tick counter is about to wrap, on a cartridge with horizontal or         *)
(* four-screen mirroring, with the PPU address at $2800.  hist keeps whose  *)
(* turn it is, the CPU turns spent on something else and the DMAs started.  *)

MaxDmas == 2

MaxTurns == 3

\* the pages copied: RAM and the PPU registers
DmaPages == {2, 32}

DmaMirrors == {"Horizontal", "FourScreen"}

InitDma ==
    \E t \in {U32_zero, NearWrap}, mirror \in DmaMirrors :
        /\ bus = [Bus_new([Cartridge_new_from_program(Empty, 0) EXCEPT !.mirror = mirror])
                    EXCEPT !.total_system_cycles = t]
        /\ ppu = [PPU_new([data |-> Empty, len |-> 0], mirror) EXCEPT
                    !.addr_reg = AddrRegister_set(@, 10240)]
        /\ cpu = NoCpu
        /\ phase = "run"
        /\ hist = [cpu_turn |-> t = U32_zero, turns |-> 0, dmas |-> 0]

\* the CPU's turn: a store to $4014
DmaStart ==
    /\ phase = "run"
    /\ hist.cpu_turn
    /\ hist.dmas < MaxDmas
    /\ \E page \in DmaPages :
       \E m \in {Bus_cpu_write(Machine, 16404, page)} :
           /\ bus' = m.bus
           /\ ppu' = m.ppu
           /\ hist' = [hist EXCEPT !.cpu_turn = FALSE, !.dmas = @ + 1]
    /\ UNCHANGED <<cpu, phase>>

\* the CPU's turn: anything that leaves the bus alone
DmaSkip ==
    /\ phase = "run"
    /\ hist.cpu_turn
    /\ hist.turns < MaxTurns
    /\ hist' = [hist EXCEPT !.cpu_turn = FALSE, !.turns = @ + 1]
    /\ UNCHANGED <<bus, ppu, cpu, phase>>

\* the bus's turn: one call of system_tick
DmaTick ==
    /\ phase = "run"
    /\ ~hist.cpu_turn
    /\ \E r \in {Bus_system_tick(Machine)} :
       \E o \in Outcomes(r.m) :
           /\ phase' = o
           /\ bus' = IF o = "run" THEN r.m.bus ELSE bus
           /\ ppu' = IF o = "run" THEN r.m.ppu ELSE ppu
           /\ hist' = IF o = "run" THEN [hist EXCEPT !.cpu_turn = r.ret] ELSE hist
    /\ UNCHANGED cpu

NextDma == DmaStart \/ DmaSkip \/ DmaTick

\* the bus is ticked for as long as the CPU is not allowed to
SpecDma == InitDma /\ [][NextDma]_vars /\ WF_vars(DmaTick)

\* C35: a DMA in progress leads to a state where dma_transfer is false and
\* system_tick has let the CPU tick again; and whenever no DMA is in
\* progress dma_dummy is true.
C35_DmaTerminates ==
    /\ bus.dma_transfer ~> (~bus.dma_transfer /\ hist.cpu_turn)
    /\ [](~bus.dma_transfer => bus.dma_dummy)

====
